---------------------------- MODULE Spec2Model ----------------------------
(***************************************************************************)
(* A model of ec_browscap.py (Eridu-Coders/ScripTrans): the BrowscapCache  *)
(* constructor (version negotiation, dataset load and normalization, the   *)
(* three precompiled tiers), the wildcard-to-regex compiler uaPattern2re   *)
(* together with the part of Python's re engine it relies on, and the      *)
(* matchers idBrowserHeavy / idBrowserSlow / idBrowserMedium.              *)
(*                                                                         *)
(* Strings that are matched character by character (wildcard patterns,     *)
(* regular expressions, user-agent strings) are sequences of one-character *)
(* strings.  Python values of a normalized row are tagged records (PyStr,  *)
(* PyInt, PyBool, PyFloat) so that Python's == between values of different *)
(* types can be written down.  Python lists that other objects refer to    *)
(* (a row of m_cacheRows held by a tier entry) are referred to by index.   *)
(***************************************************************************)
EXTENDS Integers, Sequences, FiniteSets, TLC

VARIABLES
    \* ---- BrowscapCache.__init__ -------------------------------------------
    pc,                      \* position of the constructor
    localFile,               \* the file at p_pathCsv (NoFile when absent)
    remoteVersion,           \* what cm_versionUrl answers
    l_localVersion,          \* __init__ local
    l_latestVersion,         \* __init__ local
    downloads,               \* number of downloadCSVFile calls so far
    startFile,               \* the file at p_pathCsv when __init__ was entered
    l_contents_file,         \* downloadCSVFile local: the response body last read
    self_dict,               \* self.__dict__: the attributes assigned so far
    l_reader,                \* rows of the file consumed by csv.DictReader so far
    l_defaults,              \* __init__ local: the active defaults row
    l_cacheRows,             \* __init__ local
    m_cacheRows,             \* self.m_cacheRows
    m_cachePrecompiled,      \* self.m_cachePrecompiled (Medium tier)
    m_rePrecompiled,         \* self.m_rePrecompiled (Fast tier)
    m_cachePrecompiledHeavy, \* self.m_cachePrecompiledHeavy (Heavy tier)
    q,                       \* the last matcher call and what it returned
    \* ---- uaPattern2re and re.search taken alone ----------------------------
    p_uaPattern,             \* argument of uaPattern2re
    p_ua,                    \* the string searched
    l_re,                    \* the regex uaPattern2re returned
    l_found,                 \* result of re.search(l_re, p_ua)
    \* ---- a tier rebuilt while another thread runs a query ------------------
    detached,                \* the lists m_cachePrecompiledHeavy was bound to before,
                             \* in the order they were replaced, as they were then
    b_pc,                    \* position of the thread inside initCacheHeavy
    b_row,                   \* rows of m_cacheRows that thread has appended
    t_pc,                    \* position of the thread inside idBrowserHeavy
    t_iter,                  \* that thread's list iterator: [obj, idx], obj the
                             \* number of lists bound before the one it iterates
    t_ua,                    \* its p_ua
    t_result                 \* what it returned

ctorVars == <<pc, localFile, remoteVersion, l_localVersion, l_latestVersion,
              downloads, startFile, l_contents_file, self_dict, l_reader,
              l_defaults, l_cacheRows, m_cacheRows, m_cachePrecompiled,
              m_rePrecompiled>>
reVars   == <<p_uaPattern, p_ua, l_re, l_found>>
concVars == <<detached, b_pc, b_row, t_pc, t_iter, t_ua, t_result>>
vars     == <<ctorVars, m_cachePrecompiledHeavy, q, reVars, concVars>>

(***************************************************************************)
(* Bounds of the model.                                                    *)
(***************************************************************************)
MaxRows   == 2      \* data rows of a dataset file used for matching
MaxRaw    == 3      \* raw rows of a dataset file used for normalization
MaxPatLen == 2      \* characters of a wildcard pattern taken alone
MaxStrLen == 3      \* characters of a string searched taken alone
MaxRebuilds == 1    \* calls of initCacheHeavy after construction

None == "None"      \* Python's None

---------------------------------------------------------------------------
(***************************************************************************)
(* Sequences of characters.                                                *)
(***************************************************************************)
SeqsUpTo(S, n) == UNION { [1..k -> S] : k \in 0..n }

\* s[i..] as a sequence
Drop(s, i) == SubSeq(s, i + 1, Len(s))

\* max() and min() of a non-empty set of integers
SetMax(S) == CHOOSE x \in S : \A y \in S : y <= x
SetMin(S) == CHOOSE x \in S : \A y \in S : x <= y

\* TRUE iff old occurs in s at position i
OccursAt(s, old, i) ==
    /\ i + Len(old) - 1 <= Len(s)
    /\ \A k \in 1..Len(old) : s[i + k - 1] = old[k]

\* Python's str.replace(old, new): left to right, non-overlapping
RECURSIVE replace(_, _, _)
replace(s, old, new) ==
    IF Len(s) = 0 THEN << >>
    ELSE IF OccursAt(s, old, 1)
         THEN new \o replace(Drop(s, Len(old)), old, new)
         ELSE <<s[1]>> \o replace(Drop(s, 1), old, new)

\* The characters re.escape puts a backslash in front of (Python 3.7 and
\* later: exactly these; earlier: every non-alphanumeric character, which
\* agrees on the characters used here).
ReSpecialChars ==
    { "(", ")", "[", "]", "{", "}", "?", "*", "+", "-", "|", "^", "$",
      "\\", ".", "&", "~", "#", " ", "\t", "\n", "\r", "\f" }

\* re.escape
RECURSIVE re_escape(_)
re_escape(s) ==
    IF Len(s) = 0 THEN << >>
    ELSE (IF s[1] \in ReSpecialChars THEN <<"\\", s[1]>> ELSE <<s[1]>>)
         \o re_escape(Drop(s, 1))

\* BrowscapCache.uaPattern2re
uaPattern2re(p) ==
    LET l_re0 == <<"^">> \o re_escape(p) \o <<"$">>
    IN  replace(replace(l_re0, <<"\\", "?">>, <<".">>),
                <<"\\", "*">>, <<".", "*", "?">>)


(***************************************************************************)
(* The part of Python's re engine the compiled patterns use: "^", "$",     *)
(* an escaped character, ".", ".*?" and plain characters, without flags.   *)
(* "." matches any character except a newline; "$" matches at the end of   *)
(* the string and just before a newline that ends the string.              *)
(***************************************************************************)
\* TRUE iff re[i..] matches s from position pos on
RECURSIVE re_match_at(_, _, _, _)
re_match_at(re, i, s, pos) ==
    IF i > Len(re) THEN TRUE
    ELSE CASE re[i] = "^" ->
                /\ pos = 1
                /\ re_match_at(re, i + 1, s, pos)
           [] re[i] = "$" ->
                /\ \/ pos = Len(s) + 1
                   \/ pos = Len(s) /\ s[pos] = "\n"
                /\ re_match_at(re, i + 1, s, pos)
           [] re[i] = "\\" ->
                /\ pos <= Len(s)
                /\ s[pos] = re[i + 1]
                /\ re_match_at(re, i + 2, s, pos + 1)
           [] re[i] = "." ->
                IF i + 2 <= Len(re) /\ re[i + 1] = "*" /\ re[i + 2] = "?"
                THEN \E k \in pos..(Len(s) + 1) :
                        /\ \A j \in pos..(k - 1) : s[j] # "\n"
                        /\ re_match_at(re, i + 3, s, k)
                ELSE /\ pos <= Len(s)
                     /\ s[pos] # "\n"
                     /\ re_match_at(re, i + 1, s, pos + 1)
           [] OTHER ->
                /\ pos <= Len(s)
                /\ s[pos] = re[i]
                /\ re_match_at(re, i + 1, s, pos + 1)

\* re.search(re, s), and a compiled pattern's search(s): a match or None
re_search(re, s) == \E start \in 1..(Len(s) + 1) : re_match_at(re, 1, s, start)

---------------------------------------------------------------------------
(***************************************************************************)
(* uaPattern2re and re.search taken alone, on every pattern and string of  *)
(* bounded length over alphabets with regex metacharacters and a newline.  *)
(***************************************************************************)
PatChars == { "a", ".", "\\", "\n", "(", "+", "?", "*" }
StrChars == { "a", "b", ".", "\\", "\n", "(", "+" }

NotCompiled == << >>

Compile ==
    /\ pc = "re"
    /\ l_re = NotCompiled
    /\ l_re' = uaPattern2re(p_uaPattern)
    /\ UNCHANGED <<ctorVars, m_cachePrecompiledHeavy, q, concVars,
                   p_uaPattern, p_ua, l_found>>

Search ==
    /\ pc = "re"
    /\ l_re # NotCompiled
    /\ l_found = "pending"
    /\ l_found' = IF re_search(l_re, p_ua) THEN "match" ELSE None
    /\ UNCHANGED <<ctorVars, m_cachePrecompiledHeavy, q, concVars,
                   p_uaPattern, p_ua, l_re>>

---------------------------------------------------------------------------
(***************************************************************************)
(* Python values and the strings of the dataset.                           *)
(***************************************************************************)
\* A value of a normalized row: a str, an int, a bool or a float (a float
\* is kept in tenths).  Python's True == 1 and False == 0 == 0.0.
PyStr(s)   == [t |-> "str",   s |-> s,  n |-> 0]
PyInt(n)   == [t |-> "int",   s |-> "", n |-> n]
PyBool(b)  == [t |-> "bool",  s |-> "", n |-> IF b THEN 1 ELSE 0]
PyFloat(x) == [t |-> "float", s |-> "", n |-> x]

\* Python's v == '<string literal>' and v == 0
PyEqStr(v, lit) == v.t = "str" /\ v.s = lit
PyEqZero(v)     == v.t # "str" /\ v.n = 0

\* str.lower() on the strings of the model
str_lower(s) ==
    CASE s = "PropertyName"            -> "propertyname"
      [] s = "Parent"                  -> "parent"
      [] s = "Browser"                 -> "browser"
      [] s = "Platform"                -> "platform"
      [] s = "MajorVer"                -> "majorver"
      [] s = "MinorVer"                -> "minorver"
      [] s = "Browser_Bits"            -> "browser_bits"
      [] s = "Platform_Bits"           -> "platform_bits"
      [] s = "CSSVersion"              -> "cssversion"
      [] s = "AolVersion"              -> "aolversion"
      [] s = "Version"                 -> "version"
      [] s = "RenderingEngine_Version" -> "renderingengine_version"
      [] s = "Platform_Version"        -> "platform_version"
      [] s = "DefaultProperties"       -> "defaultproperties"
      [] s = "Chrome"                  -> "chrome"
      [] s = "Firefox"                 -> "firefox"
      [] s = "IE"                      -> "ie"
      [] s = "Lynx"                    -> "lynx"
      [] s = "Grp"                     -> "grp"
      [] s = "Win"                     -> "win"
      [] s = "Mac"                     -> "mac"
      [] s = "True"                    -> "true"
      [] s = "FALSE"                   -> "false"
      [] OTHER                         -> s

\* int(s): the strings of the model int() accepts, with their value
IntLiterals ==
    [s \in {"0", "1", "2", "3", "5", "7", "32", "64", "100"} |->
        CASE s = "0" -> 0 [] s = "1" -> 1 [] s = "2" -> 2 [] s = "3" -> 3
          [] s = "5" -> 5 [] s = "7" -> 7 [] s = "32" -> 32 [] s = "64" -> 64
          [] s = "100" -> 100]

\* float(s), in tenths: what int() accepts and the decimal literals
FloatLiterals ==
    [s \in DOMAIN IntLiterals \cup {"0.0", "1.5", "2.0"} |->
        CASE s = "0.0" -> 0 [] s = "1.5" -> 15 [] s = "2.0" -> 20
          [] OTHER -> 10 * IntLiterals[s]]

\* The characters of a string used as a wildcard pattern or user agent
Chars(s) ==
    CASE s = ""          -> << >>
      [] s = "a"         -> <<"a">>
      [] s = "b"         -> <<"b">>
      [] s = "c"         -> <<"c">>
      [] s = "ab"        -> <<"a", "b">>
      [] s = "a*"        -> <<"a", "*">>
      [] s = "*b"        -> <<"*", "b">>
      [] s = "a?"        -> <<"a", "?">>
      [] s = "default"   -> <<"d", "e", "f", "a", "u", "l", "t">>
      [] s = "Opera/9.0 (X11)" -> <<"O", "p", "e", "r", "a", "/", "9", ".",
          "0", " ", "(", "X", "1", "1", ")">>
      [] s = "Mozilla" -> <<"M", "o", "z", "i", "l", "l", "a">>
      [] s = "Opera" -> <<"O", "p", "e", "r", "a">>
      [] s = "UCWEB" -> <<"U", "C", "W", "E", "B">>
      [] s = "opera" -> <<"o", "p", "e", "r", "a">>
      [] s = "opr" -> <<"o", "p", "r">>
      [] s = "edge" -> <<"e", "d", "g", "e">>
      [] s = "fxios" -> <<"f", "x", "i", "o", "s">>
      [] s = "ucbrowser" -> <<"u", "c", "b", "r", "o", "w", "s", "e", "r">>
      [] s = "msie" -> <<"m", "s", "i", "e">>
      [] s = "chromium" -> <<"c", "h", "r", "o", "m", "i", "u", "m">>
      [] s = "chrome" -> <<"c", "h", "r", "o", "m", "e">>
      [] s = "crios" -> <<"c", "r", "i", "o", "s">>
      [] s = "crmo" -> <<"c", "r", "m", "o">>
      [] s = "safari" -> <<"s", "a", "f", "a", "r", "i">>
      [] s = "windows" -> <<"w", "i", "n", "d", "o", "w", "s">>
      [] s = "trident" -> <<"t", "r", "i", "d", "e", "n", "t">>
      [] s = "firefox" -> <<"f", "i", "r", "e", "f", "o", "x">>
      [] s = "gecko" -> <<"g", "e", "c", "k", "o">>
      [] s = "android" -> <<"a", "n", "d", "r", "o", "i", "d">>
      [] s = "iphone" -> <<"i", "p", "h", "o", "n", "e">>
      [] s = "os" -> <<"o", "s">>
      [] s = "ipad" -> <<"i", "p", "a", "d">>
      [] s = "cros" -> <<"c", "r", "o", "s">>
      [] s = "nt" -> <<"n", "t">>
      [] s = "5" -> <<"5">>
      [] s = "6.0" -> <<"6", ".", "0">>
      [] s = "6.1" -> <<"6", ".", "1">>
      [] s = "6.2" -> <<"6", ".", "2">>
      [] s = "6.3" -> <<"6", ".", "3">>
      [] s = "10" -> <<"1", "0">>
      [] s = "mac" -> <<"m", "a", "c">>
      [] s = "x" -> <<"x">>
      [] s = "ubuntu" -> <<"u", "b", "u", "n", "t", "u">>
      [] s = "linux" -> <<"l", "i", "n", "u", "x">>
      [] s = "darwin" -> <<"d", "a", "r", "w", "i", "n">>
      [] s = "facebookexternalhit" -> <<"f", "a", "c", "e", "b", "o", "o",
          "k", "e", "x", "t", "e", "r", "n", "a", "l", "h", "i", "t">>
      [] s = "FBAN" -> <<"F", "B", "A", "N">>
      [] s = "FBAV" -> <<"F", "B", "A", "V">>
      [] s = "FBBV" -> <<"F", "B", "B", "V">>
      [] s = "FBRV" -> <<"F", "B", "R", "V">>
      [] s = "FBDV" -> <<"F", "B", "D", "V">>
      [] s = "FBSN" -> <<"F", "B", "S", "N">>
      [] s = "FBSV" -> <<"F", "B", "S", "V">>
      [] s = "FBSS" -> <<"F", "B", "S", "S">>
      [] s = "FBCR" -> <<"F", "B", "C", "R">>
      [] s = "FBIOS" -> <<"F", "B", "I", "O", "S">>
      [] s = "bot" -> <<"b", "o", "t">>
      [] s = "spider" -> <<"s", "p", "i", "d", "e", "r">>
      [] s = "crawl" -> <<"c", "r", "a", "w", "l">>
      [] s = "curl" -> <<"c", "u", "r", "l">>
      [] s = "wget" -> <<"w", "g", "e", "t">>
      [] s = "python" -> <<"p", "y", "t", "h", "o", "n">>
      [] s = "phantomjs" -> <<"p", "h", "a", "n", "t", "o", "m", "j", "s">>
      [] s = "UCBrowser" -> <<"U", "C", "B", "r", "o", "w", "s", "e", "r">>
      [] s = "MSIE" -> <<"M", "S", "I", "E">>
      [] s = "Safari" -> <<"S", "a", "f", "a", "r", "i">>
      [] s = "Mac" -> <<"M", "a", "c">>
      [] s = "OS" -> <<"O", "S">>
      [] s = "X" -> <<"X">>
      [] s = "AppleWebKit/" -> <<"A", "p", "p", "l", "e", "W", "e", "b", "K",
          "i", "t", "/">>
      [] s = "KHTML" -> <<"K", "H", "T", "M", "L">>
      [] s = "like" -> <<"l", "i", "k", "e">>
      [] s = "Gecko" -> <<"G", "e", "c", "k", "o">>
      [] s = "Chrome" -> <<"C", "h", "r", "o", "m", "e">>
      [] s = "CriOS" -> <<"C", "r", "i", "O", "S">>
      [] s = "CrMo" -> <<"C", "r", "M", "o">>
      [] s = "Firefox/" -> <<"F", "i", "r", "e", "f", "o", "x", "/">>
      [] s = "Mozilla/" -> <<"M", "o", "z", "i", "l", "l", "a", "/">>
      [] s = ".0" -> <<".", "0">>
      [] s = "Mozilla/5.0 " -> <<"M", "o", "z", "i", "l", "l", "a", "/", "5",
          ".", "0", " ">>
      [] s = "Opera/9.80 " -> <<"O", "p", "e", "r", "a", "/", "9", ".", "8",
          "0", " ">>
      [] s = "UCWEB/2.0 " -> <<"U", "C", "W", "E", "B", "/", "2", ".", "0",
          " ">>
      [] s = "Mozilla/5 " -> <<"M", "o", "z", "i", "l", "l", "a", "/", "5",
          " ">>
      [] s = "Mozilla/5.0" -> <<"M", "o", "z", "i", "l", "l", "a", "/", "5",
          ".", "0">>
      [] s = "Windows NT 6.1" -> <<"W", "i", "n", "d", "o", "w", "s", " ",
          "N", "T", " ", "6", ".", "1">>
      [] s = "Windows NT 5.1; Trident/7.0" -> <<"W", "i", "n", "d", "o", "w",
          "s", " ", "N", "T", " ", "5", ".", "1", ";", " ", "T", "r", "i",
          "d", "e", "n", "t", "/", "7", ".", "0">>
      [] s = "compatible; MSIE 9.0; Windows NT 6.0" -> <<"c", "o", "m", "p",
          "a", "t", "i", "b", "l", "e", ";", " ", "M", "S", "I", "E", " ",
          "9", ".", "0", ";", " ", "W", "i", "n", "d", "o", "w", "s", " ",
          "N", "T", " ", "6", ".", "0">>
      [] s = "Linux; Android 4.4" -> <<"L", "i", "n", "u", "x", ";", " ", "A",
          "n", "d", "r", "o", "i", "d", " ", "4", ".", "4">>
      [] s = "iPhone; CPU iPhone OS 9_1 like Mac OS X" -> <<"i", "P", "h",
          "o", "n", "e", ";", " ", "C", "P", "U", " ", "i", "P", "h", "o",
          "n", "e", " ", "O", "S", " ", "9", "_", "1", " ", "l", "i", "k",
          "e", " ", "M", "a", "c", " ", "O", "S", " ", "X">>
      [] s = "iPad; CPU OS 9_1 like Mac OS X" -> <<"i", "P", "a", "d", ";",
          " ", "C", "P", "U", " ", "O", "S", " ", "9", "_", "1", " ", "l",
          "i", "k", "e", " ", "M", "a", "c", " ", "O", "S", " ", "X">>
      [] s = "X11; CrOS x86_64" -> <<"X", "1", "1", ";", " ", "C", "r", "O",
          "S", " ", "x", "8", "6", "_", "6", "4">>
      [] s = "Windows NT 6.3" ->
          <<"W", "i", "n", "d", "o", "w", "s", " ", "N", "T", " ", "6",
            ".", "3">>
      [] s = "Windows NT 6.2" -> <<"W", "i", "n", "d", "o", "w", "s", " ",
          "N", "T", " ", "6", ".", "2">>
      [] s = "Windows NT 10.0" -> <<"W", "i", "n", "d", "o", "w", "s", " ",
          "N", "T", " ", "1", "0", ".", "0">>
      [] s = "Windows 98" -> <<"W", "i", "n", "d", "o", "w", "s", " ", "9",
          "8">>
      [] s = "Macintosh; Intel Mac OS X 10.8; rv:48.0" -> <<"M", "a", "c",
          "i", "n", "t", "o", "s", "h", ";", " ", "I", "n", "t", "e", "l",
          " ", "M", "a", "c", " ", "O", "S", " ", "X", " ", "1", "0", ".",
          "8", ";", " ", "r", "v", ":", "4", "8", ".", "0">>
      [] s = "X11; Ubuntu; Linux x86_64" -> <<"X", "1", "1", ";", " ", "U",
          "b", "u", "n", "t", "u", ";", " ", "L", "i", "n", "u", "x", " ",
          "x", "8", "6", "_", "6", "4">>
      [] s = "X11; Linux x86_64" -> <<"X", "1", "1", ";", " ", "L", "i", "n",
          "u", "x", " ", "x", "8", "6", "_", "6", "4">>
      [] s = "Windows\nNT 6.1; Trident/7.0" -> <<"W", "i", "n", "d", "o", "w",
          "s", "\n", "N", "T", " ", "6", ".", "1", ";", " ", "T", "r", "i",
          "d", "e", "n", "t", "/", "7", ".", "0">>
      [] s = " AppleWebKit/537.36 (KHTML, like Gecko) Chrome/50.0.2661.102 Safari/537.36" ->
          <<" ", "A", "p", "p", "l", "e", "W", "e", "b", "K", "i", "t", "/",
          "5", "3", "7", ".", "3", "6", " ", "(", "K", "H", "T", "M", "L",
          ",", " ", "l", "i", "k", "e", " ", "G", "e", "c", "k", "o", ")",
          " ", "C", "h", "r", "o", "m", "e", "/", "5", "0", ".", "0", ".",
          "2", "6", "6", "1", ".", "1", "0", "2", " ", "S", "a", "f", "a",
          "r", "i", "/", "5", "3", "7", ".", "3", "6">>
      [] s = " Gecko/20100101 Firefox/48.0" -> <<" ", "G", "e", "c", "k", "o",
          "/", "2", "0", "1", "0", "0", "1", "0", "1", " ", "F", "i", "r",
          "e", "f", "o", "x", "/", "4", "8", ".", "0">>
      [] s = " like Gecko" -> <<" ", "l", "i", "k", "e", " ", "G", "e", "c",
          "k", "o">>
      [] s = " Version/9.0 Safari/601.1" -> <<" ", "V", "e", "r", "s", "i",
          "o", "n", "/", "9", ".", "0", " ", "S", "a", "f", "a", "r", "i",
          "/", "6", "0", "1", ".", "1">>
      [] s = " Chromium/50.0 Chrome/50.0 Safari/537.36" -> <<" ", "C", "h",
          "r", "o", "m", "i", "u", "m", "/", "5", "0", ".", "0", " ", "C",
          "h", "r", "o", "m", "e", "/", "5", "0", ".", "0", " ", "S", "a",
          "f", "a", "r", "i", "/", "5", "3", "7", ".", "3", "6">>
      [] s = " Chrome/49.0 Safari/537.36 OPR/36.0" -> <<" ", "C", "h", "r",
          "o", "m", "e", "/", "4", "9", ".", "0", " ", "S", "a", "f", "a",
          "r", "i", "/", "5", "3", "7", ".", "3", "6", " ", "O", "P", "R",
          "/", "3", "6", ".", "0">>
      [] s = " Chrome/46.0 Safari/537.36 Edge/13.0" -> <<" ", "C", "h", "r",
          "o", "m", "e", "/", "4", "6", ".", "0", " ", "S", "a", "f", "a",
          "r", "i", "/", "5", "3", "7", ".", "3", "6", " ", "E", "d", "g",
          "e", "/", "1", "3", ".", "0">>
      [] s = " FxiOS/1.0 Safari/601.1" -> <<" ", "F", "x", "i", "O", "S", "/",
          "1", ".", "0", " ", "S", "a", "f", "a", "r", "i", "/", "6", "0",
          "1", ".", "1">>
      [] s = " UCBrowser/10.0 Safari/537.36" -> <<" ", "U", "C", "B", "r",
          "o", "w", "s", "e", "r", "/", "1", "0", ".", "0", " ", "S", "a",
          "f", "a", "r", "i", "/", "5", "3", "7", ".", "3", "6">>
      [] s = " CriOS/50.0 Safari/601.1" -> <<" ", "C", "r", "i", "O", "S",
          "/", "5", "0", ".", "0", " ", "S", "a", "f", "a", "r", "i", "/",
          "6", "0", "1", ".", "1">>
      [] s = " Presto/2.12 Version/12.16" -> <<" ", "P", "r", "e", "s", "t",
          "o", "/", "2", ".", "1", "2", " ", "V", "e", "r", "s", "i", "o",
          "n", "/", "1", "2", ".", "1", "6">>
      [] s = " Safari/600.1 CFNetwork/711 Darwin/14.0" -> <<" ", "S", "a",
          "f", "a", "r", "i", "/", "6", "0", "0", ".", "1", " ", "C", "F",
          "N", "e", "t", "w", "o", "r", "k", "/", "7", "1", "1", " ", "D",
          "a", "r", "w", "i", "n", "/", "1", "4", ".", "0">>
      [] s = " Darwin/14.0 Safari/600.1" -> <<" ", "D", "a", "r", "w", "i",
          "n", "/", "1", "4", ".", "0", " ", "S", "a", "f", "a", "r", "i",
          "/", "6", "0", "0", ".", "1">>
      [] s = " Safari/600.1\nDarwin/14.0" -> <<" ", "S", "a", "f", "a", "r",
          "i", "/", "6", "0", "0", ".", "1", "\n", "D", "a", "r", "w", "i",
          "n", "/", "1", "4", ".", "0">>
      [] s = " Safari/600.1 Darwin/14.0 [FBAV/1.0] bingbot/2.0" ->
          <<" ", "S", "a", "f", "a", "r", "i", "/", "6", "0", "0", ".",
            "1", " ", "D", "a", "r", "w", "i", "n", "/", "1", "4", ".",
            "0", " ", "[", "F", "B", "A", "V", "/", "1", ".", "0", "]",
            " ", "b", "i", "n", "g", "b", "o", "t", "/", "2", ".", "0">>
      [] s = " Googlebot/2.1" -> <<" ", "G", "o", "o", "g", "l", "e", "b",
          "o", "t", "/", "2", ".", "1">>
      [] s = " Safari/600.1 [FBAN/FBIOS]" -> <<" ", "S", "a", "f", "a", "r",
          "i", "/", "6", "0", "0", ".", "1", " ", "[", "F", "B", "A", "N",
          "/", "F", "B", "I", "O", "S", "]">>
      [] s = " Firefox/48.0 PhantomJS/2.1" -> <<" ", "F", "i", "r", "e", "f",
          "o", "x", "/", "4", "8", ".", "0", " ", "P", "h", "a", "n", "t",
          "o", "m", "J", "S", "/", "2", ".", "1">>
      [] s = "curl/7.43" -> <<"c", "u", "r", "l", "/", "7", ".", "4", "3">>
      [] s = "MobileSafari/604.1 CFNetwork/978 Darwin/18.7" -> <<"M", "o",
          "b", "i", "l", "e", "S", "a", "f", "a", "r", "i", "/", "6", "0",
          "4", ".", "1", " ", "C", "F", "N", "e", "t", "w", "o", "r", "k",
          "/", "9", "7", "8", " ", "D", "a", "r", "w", "i", "n", "/", "1",
          "8", ".", "7">>
      [] s = "Darwin/18.7 Safari/604.1" -> <<"D", "a", "r", "w", "i", "n",
          "/", "1", "8", ".", "7", " ", "S", "a", "f", "a", "r", "i", "/",
          "6", "0", "4", ".", "1">>
      [] s = "facebookexternalhit/1.1" -> <<"f", "a", "c", "e", "b", "o", "o",
          "k", "e", "x", "t", "e", "r", "n", "a", "l", "h", "i", "t", "/",
          "1", ".", "1">>
      [] s = "Wget/1.17 (linux-gnu)" -> <<"W", "g", "e", "t", "/", "1", ".",
          "1", "7", " ", "(", "l", "i", "n", "u", "x", "-", "g", "n", "u",
          ")">>
      [] s = "Lynx/2.8" -> <<"L", "y", "n", "x", "/", "2", ".", "8">>
      [] s = "Python-urllib/3.5" -> <<"P", "y", "t", "h", "o", "n", "-", "u",
          "r", "l", "l", "i", "b", "/", "3", ".", "5">>

IntFields   == {"majorver", "browser_bits", "platform_bits", "minorver"}
FloatFields == {"cssversion", "aolversion", "version",
                "renderingengine_version", "platform_version"}

---------------------------------------------------------------------------
(***************************************************************************)
(* The Dataset Normalizer: pythonize and replace_defaults.  A row is a     *)
(* function from column names to values; {} is the function with the       *)
(* empty domain.                                                           *)
(***************************************************************************)
EmptyDict == [k \in {} |-> PyStr("")]

\* (mutant: the column is looked at before the words true and false)
pythonize_value_NumbersFirst(l_featL, l_value) ==
    LET l_valL == str_lower(l_value)
    IN  IF l_featL \in IntFields
        THEN (IF l_value \in DOMAIN IntLiterals
              THEN PyInt(IntLiterals[l_value]) ELSE PyInt(0))
        ELSE IF l_featL \in FloatFields
             THEN (IF l_value \in DOMAIN FloatLiterals
                   THEN PyFloat(FloatLiterals[l_value]) ELSE PyFloat(0))
        ELSE IF l_valL = "true" THEN PyBool(TRUE)
        ELSE IF l_valL = "false" THEN PyBool(FALSE)
        ELSE PyStr(l_value)

\* The value pythonize stores for raw value l_value of column l_featL
pythonize_value(l_featL, l_value) ==
    LET l_valL == str_lower(l_value)
    IN  IF l_valL = "true" THEN PyBool(TRUE)
        ELSE IF l_valL = "false" THEN PyBool(FALSE)
        ELSE IF l_featL \in IntFields
             THEN (IF l_value \in DOMAIN IntLiterals
                   THEN PyInt(IntLiterals[l_value]) ELSE PyInt(0))
        ELSE IF l_featL \in FloatFields
             THEN (IF l_value \in DOMAIN FloatLiterals
                   THEN PyFloat(FloatLiterals[l_value]) ELSE PyFloat(0))
        ELSE PyStr(l_value)

\* BrowscapCache.pythonize (column names are distinct once lower-cased)
pythonize(p_line) ==
    [l_featL \in { str_lower(k) : k \in DOMAIN p_line } |->
        LET k == CHOOSE k \in DOMAIN p_line : str_lower(k) = l_featL
        IN  pythonize_value(l_featL, p_line[k])]

\* replace_defaults, first test: the value is 'default' or ''
IsDefaultMarker(l_value) == PyEqStr(l_value, "default") \/ PyEqStr(l_value, "")

\* replace_defaults, second test: l_feature is one of the three names the
\* code compares with (the third is compared without .lower())
IsBitsFeature(l_feature) ==
    \/ l_feature = str_lower("Browser_Bits")
    \/ l_feature = str_lower("Platform_Bits")
    \/ l_feature = "MinorVer"

\* replace_defaults, third test
IsFloatFeature(l_feature) ==
    \/ l_feature = str_lower("CSSVersion")
    \/ l_feature = str_lower("AolVersion")
    \/ l_feature = str_lower("Version")
    \/ l_feature = str_lower("RenderingEngine_Version")
    \/ l_feature = str_lower("Platform_Version")

\* TRUE iff replace_defaults reads p_defaults[l_feature] for this value
\* (the three tests of the loop body; the defaults row is only read when
\* one of them holds, and a later test sees the value an earlier one took
\* from the defaults row)
ReadsDefault(l_feature, l_value) ==
    \/ IsDefaultMarker(l_value)
    \/ (IsBitsFeature(l_feature) \/ IsFloatFeature(l_feature)) /\ PyEqZero(l_value)

\* TRUE iff replace_defaults raises KeyError: it reads a key p_defaults lacks
replace_defaults_raises(p_line, p_defaults) ==
    \E l_feature \in DOMAIN p_line :
        /\ ReadsDefault(l_feature, p_line[l_feature])
        /\ l_feature \notin DOMAIN p_defaults

\* BrowscapCache.replace_defaults, when it does not raise
replace_defaults(p_line, p_defaults) ==
    [l_feature \in DOMAIN p_line |->
        LET v0 == p_line[l_feature]
            v1 == IF IsDefaultMarker(v0) THEN p_defaults[l_feature] ELSE v0
            v2 == IF IsBitsFeature(l_feature) /\ PyEqZero(v1)
                  THEN p_defaults[l_feature] ELSE v1
            v3 == IF IsFloatFeature(l_feature) /\ PyEqZero(v2)
                  THEN p_defaults[l_feature] ELSE v2
        IN  v3]

---------------------------------------------------------------------------
(***************************************************************************)
(* The tiers and the matchers.  A tier entry is (compiled regex, row); the *)
(* row is the dict object held by m_cacheRows, named here by its index.    *)
(* A matcher returns Browscap(row), written as the row's index, or None,   *)
(* written as 0.                                                           *)
(***************************************************************************)
ReturnsNone == 0

\* (re.compile(uaPattern2re(l_row['propertyname'])), l_row) for row i
CompiledRow(rows, i) ==
    [re |-> uaPattern2re(Chars(rows[i]["propertyname"].s)), row |-> i]

\* (mutant: each entry is put in front of the list instead of appended)
initCacheHeavy_Prepends(rows) ==
    [i \in 1..Len(rows) |-> CompiledRow(rows, Len(rows) + 1 - i)]

\* BrowscapCache.initCacheHeavy: the list it leaves in m_cachePrecompiledHeavy
initCacheHeavy(rows) == [i \in 1..Len(rows) |-> CompiledRow(rows, i)]

l_deltaVer    == 6
l_browserList == {"Chrome", "Safari", "IE", "Opera", "Firefox"}

\* (mutant: no browser is left out)
InBrowserList_Any(l_browser) == l_browser.t = "str"

\* l_browser not in l_browserList, negated
InBrowserList(l_browser) == l_browser.t = "str" /\ l_browser.s \in l_browserList

\* initCacheMedium, first loop: l_maxVer after rows i.. have been seen
RECURSIVE maxVerLoop(_, _, _)
maxVerLoop(rows, i, l_maxVer) ==
    IF i > Len(rows) THEN l_maxVer
    ELSE LET l_browser == rows[i]["browser"]
             l_ver     == rows[i]["majorver"].n
         IN  IF ~InBrowserList(l_browser)
             THEN maxVerLoop(rows, i + 1, l_maxVer)
             ELSE IF l_browser.s \in DOMAIN l_maxVer
                  THEN (IF l_maxVer[l_browser.s] < l_ver
                        THEN maxVerLoop(rows, i + 1,
                                 [l_maxVer EXCEPT ![l_browser.s] = l_ver])
                        ELSE maxVerLoop(rows, i + 1, l_maxVer))
                  ELSE maxVerLoop(rows, i + 1, (l_browser.s :> l_ver) @@ l_maxVer)

\* (mutant: a row exactly l_deltaVer versions behind is kept)
InVersionWindow_Inclusive(l_max, l_ver) == l_max - l_ver <= l_deltaVer

\* initCacheMedium, the test of the second loop
InVersionWindow(l_max, l_ver) == l_max - l_ver < l_deltaVer

\* initCacheMedium, second loop: m_cachePrecompiled after rows i.. have been seen
RECURSIVE selectLoop(_, _, _, _)
selectLoop(rows, i, l_maxVer, l_list) ==
    IF i > Len(rows) THEN l_list
    ELSE LET l_browser == rows[i]["browser"]
             l_ver     == rows[i]["majorver"].n
         IN  IF ~InBrowserList(l_browser)
             THEN selectLoop(rows, i + 1, l_maxVer, l_list)
             ELSE IF InVersionWindow(l_maxVer[l_browser.s], l_ver)
                  THEN selectLoop(rows, i + 1, l_maxVer,
                                  Append(l_list, CompiledRow(rows, i)))
                  ELSE selectLoop(rows, i + 1, l_maxVer, l_list)

\* (mutant: each selected row is put in front of the list)
initCacheMedium_NewestFirst(rows) ==
    LET l_list == selectLoop(rows, 1, maxVerLoop(rows, 1, [b \in {} |-> 0]), << >>)
    IN  [i \in 1..Len(l_list) |-> l_list[Len(l_list) + 1 - i]]

\* BrowscapCache.initCacheMedium: the list it leaves in m_cachePrecompiled
initCacheMedium(rows) ==
    selectLoop(rows, 1, maxVerLoop(rows, 1, [b \in {} |-> 0]), << >>)

\* BrowscapCache.initCacheFast: the labels of l_reList, in order (each rule
\* is named by its place in the list)
initCacheFast ==
    << [browser |-> "Chrome",     rule |-> 1],
       [browser |-> "UC Browser", rule |-> 2],
       [browser |-> "Opera",      rule |-> 3],
       [browser |-> "IE",         rule |-> 4],
       [browser |-> "Safari",     rule |-> 5],
       [browser |-> "Safari",     rule |-> 6],
       [browser |-> "Firefox",    rule |-> 7] >>

\* The loop of idBrowserHeavy and idBrowserMedium from entry i on
RECURSIVE scanTier(_, _, _)
scanTier(tier, i, ua) ==
    IF i > Len(tier) THEN ReturnsNone
    ELSE IF re_search(tier[i].re, ua) THEN tier[i].row
         ELSE scanTier(tier, i + 1, ua)

\* (mutant: the loop does not return at the first match, the last one wins)
RECURSIVE scanTierToEnd(_, _, _, _)
scanTierToEnd(tier, i, ua, l_hit) ==
    IF i > Len(tier) THEN l_hit
    ELSE scanTierToEnd(tier, i + 1, ua,
                       IF re_search(tier[i].re, ua) THEN tier[i].row ELSE l_hit)
idBrowserHeavy_LastMatch(tier, ua) == scanTierToEnd(tier, 1, Chars(ua), ReturnsNone)

\* BrowscapCache.idBrowserHeavy, the tier being built
idBrowserHeavy(tier, ua) == scanTier(tier, 1, Chars(ua))

\* (mutant: the last matching entry of the tier is returned)
idBrowserMedium_LastMatch(tier, ua) == scanTierToEnd(tier, 1, Chars(ua), ReturnsNone)

\* BrowscapCache.idBrowserMedium, the tier being built
idBrowserMedium(tier, ua) == scanTier(tier, 1, Chars(ua))

\* The loop of idBrowserSlow from row i on
RECURSIVE slowLoop(_, _, _)
slowLoop(rows, i, ua) ==
    IF i > Len(rows) THEN ReturnsNone
    ELSE IF re_search(uaPattern2re(Chars(rows[i]["propertyname"].s)), ua) THEN i
         ELSE slowLoop(rows, i + 1, ua)

\* (mutant: after the loop the last row read is returned)
idBrowserSlow_LastRowOnNoMatch(rows, ua) ==
    IF slowLoop(rows, 1, Chars(ua)) = ReturnsNone THEN Len(rows)
    ELSE slowLoop(rows, 1, Chars(ua))

\* BrowscapCache.idBrowserSlow
idBrowserSlow(rows, ua) == slowLoop(rows, 1, Chars(ua))

---------------------------------------------------------------------------
(***************************************************************************)
(* The regular expressions written out in the source (idBrowserAnalytic,   *)
(* initCacheFast).  Such a regex is a sequence of items: a character       *)
(* class, a starred character class, or a group of alternatives, each of   *)
(* them a sequence of items.  The source only stars single characters and  *)
(* classes (".*", "\d+", "[^\)]*", "\.*").  None is compiled with flags.   *)
(***************************************************************************)
Ch(S)      == [k |-> "class", cs |-> S, neg |-> FALSE]    \* one of S
NotCh(S)   == [k |-> "class", cs |-> S, neg |-> TRUE]     \* [^S]
Star(x)    == [k |-> "star",  cs |-> x.cs, neg |-> x.neg] \* x*
Alt(alts)  == [k |-> "alt",   alts |-> alts]              \* (a|b|...)
Plus(x)    == <<x, Star(x)>>                              \* x+

Dot        == NotCh({"\n"})                               \* .
Digit      == Ch({"0", "1", "2", "3", "4", "5", "6", "7", "8", "9"})   \* \d
Space      == Ch({" ", "\t", "\n", "\r", "\f"})           \* \s
Lit(s)     == [i \in 1..Len(Chars(s)) |-> Ch({Chars(s)[i]})]   \* plain text
OptSpace   == Alt(<< <<Space>>, << >> >>)                 \* (\s|)

\* F applied to the value of v, which is computed once: v is a local variable
Bind(v, F(_)) == CHOOSE r \in { F(x) : x \in {v} } : TRUE

\* c is in the class of item x
InClass(x, c) == (c \in x.cs) # x.neg

\* The positions of s where a match of re[i..] can end that begins at one of
\* the positions P
RECURSIVE re_ends(_, _, _, _)
re_ends(l_re0, i0, s0, P0) ==
    UNION { IF i > Len(re) \/ P = {} THEN P
            ELSE LET x == re[i]
                 IN  re_ends(re, i + 1, s,
                       CASE x.k = "class" ->
                              { p + 1 : p \in { p \in P : /\ p <= Len(s)
                                                          /\ InClass(x, s[p]) } }
                         [] x.k = "star" ->
                              UNION { { e \in 1..(Len(s) + 1) :
                                          \E p \in P :
                                             /\ p <= e
                                             /\ \A j \in out : j < p \/ j >= e } :
                                      out \in { { j \in 1..Len(s) :
                                                    ~InClass(x, s[j]) } } }
                         [] x.k = "alt" ->
                              UNION { re_ends(x.alts[a], 1, s, P) :
                                      a \in DOMAIN x.alts }) :
            <<re, i, s, P>> \in { <<l_re0, i0, s0, P0>> } }

\* re.search(re, s) for a regex of the source: a match or None
re_search_src(re, s) ==
    Bind(s, LAMBDA str : re_ends(re, 1, str, 1..(Len(str) + 1)) # {})

\* str.lower() on a sequence of characters
UpperCase == <<"A", "B", "C", "D", "E", "F", "G", "H", "I", "J", "K", "L", "M",
               "N", "O", "P", "Q", "R", "S", "T", "U", "V", "W", "X", "Y", "Z">>
LowerCase == <<"a", "b", "c", "d", "e", "f", "g", "h", "i", "j", "k", "l", "m",
               "n", "o", "p", "q", "r", "s", "t", "u", "v", "w", "x", "y", "z">>
char_lower(c) ==
    IF \E i \in 1..26 : UpperCase[i] = c
    THEN LowerCase[CHOOSE i \in 1..26 : UpperCase[i] = c]
    ELSE c
lower(s) == Bind(s, LAMBDA str : [i \in 1..Len(str) |-> char_lower(str[i])])

(***************************************************************************)
(* BrowscapCache.idBrowserAnalytic.                                        *)
(***************************************************************************)
\* '((Mozilla|Opera|UCWEB)/\d+\.\d+)(\s|)\(([^\)]*)\)(.*)', group by group
re_group1 == <<Alt(<<Lit("Mozilla"), Lit("Opera"), Lit("UCWEB")>>), Ch({"/"})>>
                 \o Plus(Digit) \o <<Ch({"."})>> \o Plus(Digit)
re_open   == <<OptSpace, Ch({"("})>>
re_group4 == <<Star(NotCh({")"}))>>
re_close  == <<Ch({")"})>>
re_group5 == <<Star(Dot)>>

NoMatch == [found |-> FALSE, head |-> << >>, body |-> << >>, tail |-> << >>]

\* re.search: the positions a match can start at
match_starts(ua) ==
    { p \in 1..(Len(ua) + 1) :
        re_ends(re_group1 \o re_open \o re_group4 \o re_close \o re_group5,
                1, ua, {p}) # {} }

\* The largest of the positions E after which the regex rest still matches:
\* a greedy item gives back only as far as the rest of the regex needs
greedy_end(E, rest, ua) ==
    Bind({ e \in E : re_ends(rest, 1, ua, {e}) # {} }, LAMBDA ok : SetMax(ok))

\* l_match: the leftmost match and its groups 1, 4 and 5
l_match(l_ua) ==
    Bind(l_ua, LAMBDA ua :
    Bind(match_starts(ua), LAMBDA starts :
        IF starts = {} THEN NoMatch
        ELSE
    Bind(SetMin(starts), LAMBDA st :
    Bind(greedy_end(re_ends(re_group1, 1, ua, {st}),
                    re_open \o re_group4 \o re_close \o re_group5, ua), LAMBDA e1 :
    Bind(greedy_end(re_ends(re_open, 1, ua, {e1}),
                    re_group4 \o re_close \o re_group5, ua), LAMBDA b0 :
    Bind(greedy_end(re_ends(re_group4, 1, ua, {b0}),
                    re_close \o re_group5, ua), LAMBDA b1 :
    Bind(greedy_end(re_ends(re_group5, 1, ua, {b1 + 1}), << >>, ua), LAMBDA t1 :
        [found |-> TRUE,
         head  |-> SubSeq(ua, st, e1 - 1),
         body  |-> SubSeq(ua, b0, b1 - 1),
         tail  |-> SubSeq(ua, b1 + 1, t1 - 1)] )))))))

\* (mutant: 'opr' is not looked for)
re_opera_opr_OperaOnly == <<Alt(<<Lit("opera")>>)>>

\* The regexes of the browser tests
re_opera_opr == <<Alt(<<Lit("opera"), Lit("opr")>>)>>
re_chrome    == <<Alt(<<Lit("chrome"), Lit("crios"), Lit("crmo")>>)>>
re_trident   == Lit("windows") \o <<Star(Dot)>> \o Lit("trident")

\* l_browser after the first if/elif chain
l_browser_picked(l_head, l_bodL, l_tailL) ==
    IF re_search_src(re_opera_opr, l_tailL)
           \/ re_search_src(Lit("opera"), lower(l_head))    THEN "Opera"
    ELSE IF re_search_src(Lit("edge"), l_tailL)             THEN "Edge"
    ELSE IF re_search_src(Lit("fxios"), l_tailL)            THEN "Firefox"
    ELSE IF re_search_src(Lit("ucbrowser"), l_tailL)        THEN "UC Browser"
    ELSE IF re_search_src(Lit("msie"), l_bodL)              THEN "IE"
    ELSE IF re_search_src(Lit("chromium"), l_tailL)         THEN "Chromium"
    ELSE IF re_search_src(re_chrome, l_tailL)               THEN "Chrome"
    ELSE IF re_search_src(Lit("safari"), l_tailL)           THEN "Safari"
    ELSE IF re_search_src(re_trident, l_bodL)               THEN "IE"
    ELSE IF re_search_src(Lit("firefox"), l_tailL)          THEN "Firefox"
    ELSE IF re_search_src(Lit("gecko"), l_tailL)            THEN "Firefox"
    ELSE "Unknown"

\* 'windows\snt\s<version>'
re_windows_nt(version) ==
    Lit("windows") \o <<Space>> \o Lit("nt") \o <<Space>> \o Lit(version)
re_iphone_os == Lit("iphone") \o <<Space>> \o Lit("os")
re_mac_os_x  == Lit("mac") \o <<Space>> \o Lit("os") \o <<Space>> \o Lit("x")

\* l_platform after the second if/elif chain
l_platform_picked(l_bodL) ==
    IF re_search_src(Lit("android"), l_bodL)                THEN "Android"
    ELSE IF re_search_src(re_iphone_os, l_bodL)             THEN "iOS"
    ELSE IF re_search_src(Lit("ipad"), l_bodL)              THEN "iOS"
    ELSE IF re_search_src(Lit("cros"), l_bodL)              THEN "ChromeOS"
    ELSE IF re_search_src(re_windows_nt("5"), l_bodL)       THEN "WinXP"
    ELSE IF re_search_src(re_windows_nt("6.0"), l_bodL)     THEN "WinVista"
    ELSE IF re_search_src(re_windows_nt("6.1"), l_bodL)     THEN "Win7"
    ELSE IF re_search_src(re_windows_nt("6.2"), l_bodL)     THEN "Win8"
    ELSE IF re_search_src(re_windows_nt("6.3"), l_bodL)     THEN "Win8.1"
    ELSE IF re_search_src(re_windows_nt("10"), l_bodL)      THEN "Win10"
    ELSE IF re_search_src(Lit("windows"), l_bodL)           THEN "Windows"
    ELSE IF re_search_src(re_mac_os_x, l_bodL)              THEN "MacOSX"
    ELSE IF re_search_src(Lit("ubuntu"), l_bodL)            THEN "Ubuntu"
    ELSE IF re_search_src(Lit("linux"), l_bodL)             THEN "Linux"
    ELSE "Unknown"

\* (mutant: the browser is left as it was classified)
l_browser_android_Kept(l_browser, l_bodL) == l_browser

\* l_browser after the android branch of the second chain
l_browser_android(l_browser, l_bodL) ==
    IF re_search_src(Lit("android"), l_bodL) /\ l_browser = "Safari"
    THEN "Android" ELSE l_browser

\* (mutant: darwin is looked for before safari)
re_safari_darwin_Swapped == Lit("darwin") \o <<Star(Dot)>> \o Lit("safari")

\* (mutant: 'python' is not looked for)
re_bot_NoPython ==
    <<Alt(<<Lit("bot"), Lit("spider"), Lit("crawl"), Lit("curl"), Lit("wget"),
            Lit("phantomjs")>>)>>

\* The regexes of the three overrides
re_safari_darwin == Lit("safari") \o <<Star(Dot)>> \o Lit("darwin")
re_facebook ==
    <<Alt(<<Lit("facebookexternalhit"), Lit("FBAN"), Lit("FBAV"), Lit("FBBV"),
            Lit("FBRV"), Lit("FBDV"), Lit("FBSN"), Lit("FBSV"), Lit("FBSS"),
            Lit("FBCR"), Lit("FBIOS")>>)>>
re_bot ==
    <<Alt(<<Lit("bot"), Lit("spider"), Lit("crawl"), Lit("curl"), Lit("wget"),
            Lit("python"), Lit("phantomjs")>>)>>

\* l_browser and l_platform when l_match is a match
structural(m) ==
    Bind(<<lower(m.body), lower(m.tail)>>, LAMBDA l :
        [browser  |-> l_browser_android(l_browser_picked(m.head, l[1], l[2]), l[1]),
         platform |-> l_platform_picked(l[1])])

\* The three overrides, applied to the pair r in the order of the source
overrides(r, ua, l_uaL) ==
    Bind(<<re_search_src(re_safari_darwin, l_uaL),
           re_search_src(re_facebook, ua),
           re_search_src(re_bot, l_uaL)>>, LAMBDA hit :
        [browser  |-> IF hit[3] THEN "Bot"
                      ELSE IF hit[2] THEN "Facebook"
                      ELSE IF hit[1] THEN "Safari"
                      ELSE r.browser,
         platform |-> IF hit[3] THEN ""
                      ELSE IF hit[1] THEN "iOS"
                      ELSE r.platform])

\* BrowscapCache.idBrowserAnalytic: the pair it returns
idBrowserAnalytic(l_ua) ==
    Bind(l_ua, LAMBDA ua :
    Bind(l_match(ua), LAMBDA m :
    Bind(IF m.found THEN structural(m)
         ELSE [browser |-> "Unknown", platform |-> "Unknown"], LAMBDA r :
        overrides(r, ua, lower(ua)) )))

\* initCacheFast: the regexes of l_reList, in order
l_reList ==
    << \* 'Mozilla/5\.0(\s|)\(.*\).*AppleWebKit/.*\(KHTML.*like\sGecko.*\)(\s|)(Chrome|.*CriOS|.*CrMo)/(\d+\.|).*'
       Lit("Mozilla/5.0") \o <<OptSpace, Ch({"("}), Star(Dot), Ch({")"}), Star(Dot)>>
           \o Lit("AppleWebKit/") \o <<Star(Dot), Ch({"("})>> \o Lit("KHTML")
           \o <<Star(Dot)>> \o Lit("like") \o <<Space>> \o Lit("Gecko")
           \o <<Star(Dot), Ch({")"}), OptSpace,
                Alt(<<Lit("Chrome"), <<Star(Dot)>> \o Lit("CriOS"),
                      <<Star(Dot)>> \o Lit("CrMo")>>),
                Ch({"/"}),
                Alt(<<Plus(Digit) \o <<Ch({"."})>>, << >>>>),
                Star(Dot)>>,
       \* '.*(UCBrowser|UCWEB).*'
       <<Star(Dot), Alt(<<Lit("UCBrowser"), Lit("UCWEB")>>), Star(Dot)>>,
       \* '.*Opera.*'
       <<Star(Dot)>> \o Lit("Opera") \o <<Star(Dot)>>,
       \* 'Mozilla/(\d\.0|\.*).*\(.*MSIE\s\d+\.(\d+|).*'
       Lit("Mozilla/")
           \o <<Alt(<< <<Digit>> \o Lit(".0"), <<Star(Ch({"."}))>> >>),
                Star(Dot), Ch({"("}), Star(Dot)>>
           \o Lit("MSIE") \o <<Space>> \o Plus(Digit)
           \o <<Ch({"."}), Alt(<<Plus(Digit), << >>>>), Star(Dot)>>,
       \* '.*Safari.*'
       <<Star(Dot)>> \o Lit("Safari") \o <<Star(Dot)>>,
       \* 'Mozilla/5\.0(\s|)\(.*Mac\sOS\sX.*\).*AppleWebKit/.*'
       Lit("Mozilla/5.0") \o <<OptSpace, Ch({"("}), Star(Dot)>>
           \o Lit("Mac") \o <<Space>> \o Lit("OS") \o <<Space>> \o Lit("X")
           \o <<Star(Dot), Ch({")"}), Star(Dot)>> \o Lit("AppleWebKit/")
           \o <<Star(Dot)>>,
       \* 'Mozilla/\d\.0\s\(.*\).*Gecko.*(Firefox/\d+\.\d+.*|)'
       Lit("Mozilla/") \o <<Digit>> \o Lit(".0")
           \o <<Space, Ch({"("}), Star(Dot), Ch({")"}), Star(Dot)>>
           \o Lit("Gecko")
           \o <<Star(Dot),
                Alt(<<Lit("Firefox/") \o Plus(Digit) \o <<Ch({"."})>>
                          \o Plus(Digit) \o <<Star(Dot)>>,
                      << >>>>)>> >>

\* The loop of idBrowserFastAndDirty from entry i on
RECURSIVE fastLoop(_, _, _)
fastLoop(tier, i, ua) ==
    IF i > Len(tier) THEN "Unknows"
    ELSE IF re_search_src(l_reList[tier[i].rule], ua) THEN tier[i].browser
         ELSE fastLoop(tier, i + 1, ua)

\* (mutant: the loop runs to the end and the last matching rule decides)
idBrowserFastAndDirty_LastMatch(tier, ua) ==
    Bind(ua, LAMBDA str :
        Bind({ i \in 1..Len(tier) : re_search_src(l_reList[tier[i].rule], str) },
             LAMBDA hits : IF hits = {} THEN "Unknows"
                           ELSE tier[SetMax(hits)].browser))

\* BrowscapCache.idBrowserFastAndDirty, the tier being built
idBrowserFastAndDirty(tier, ua) == Bind(ua, LAMBDA str : fastLoop(tier, 1, str))

---------------------------------------------------------------------------
(***************************************************************************)
(* Dataset files.  A file is its version marker (second line, first field) *)
(* and its data lines as csv.DictReader yields them.  A file that is there *)
(* may still not be readable: opening or decoding it raises, or it ends    *)
(* before its second line.                                                 *)
(***************************************************************************)
NoFile == [exists |-> FALSE, readable |-> FALSE, version |-> "", rows |-> << >>]
File(version, rows) ==
    [exists |-> TRUE, readable |-> TRUE, version |-> version, rows |-> rows]
UnreadableFile == [exists |-> TRUE, readable |-> FALSE, version |-> "", rows |-> << >>]

RawRow(parent, name, browser, platform, majorver, minorver, bits, flt) ==
    [ PropertyName |-> name,  Parent |-> parent,  Browser |-> browser,
      Platform |-> platform,  MajorVer |-> majorver,  MinorVer |-> minorver,
      Browser_Bits |-> bits,  Platform_Bits |-> bits,
      CSSVersion |-> flt,  AolVersion |-> flt,  Version |-> flt,
      RenderingEngine_Version |-> flt,  Platform_Version |-> flt ]

\* Rows for normalization: every kind of parent, with concrete values (two
\* flavours), with 'default' everywhere, and with empty and zero values;
\* a group row with 'True' and 'FALSE' in fields of every type
NormRows ==
    { RawRow(parent, "a", "Chrome", "Win", "5", "3", "32", "1.5") :
          parent \in {"", "DefaultProperties", "Grp"} }
    \cup
    { RawRow(parent, "b", "IE", "Mac", "7", "1", "64", "2.0") :
          parent \in {"", "DefaultProperties", "Grp"} }
    \cup
    { RawRow(parent, "default", "default", "default", "default", "default",
             "default", "default") :
          parent \in {"", "DefaultProperties", "Grp"} }
    \cup
    { RawRow(parent, "", "", "", "0", "0", "0", "0.0") :
          parent \in {"", "DefaultProperties", "Grp"} }
    \cup
    { RawRow("DefaultProperties", "True", "FALSE", "Win", "True", "FALSE",
             "True", "FALSE") }

NormFiles == { File("1", rows) : rows \in SeqsUpTo(NormRows, MaxRaw) }

\* Rows for matching: a defaults row, then data rows that differ in
\* pattern, browser and major version
GroupDefaults == RawRow("DefaultProperties", "a", "Lynx", "Win", "1", "3", "32", "1.5")

MatchRows ==
    { RawRow("Grp", name, bv[1], "Win", bv[2], "3", "32", "1.5") :
          name \in {"a*", "*b"},
          bv \in { <<"Chrome", "1">>, <<"Chrome", "2">>, <<"Chrome", "7">>,
                   <<"IE", "1">>, <<"IE", "7">>, <<"Lynx", "7">> } }

MatchFiles ==
    { File("1", <<GroupDefaults>> \o rows) : rows \in SeqsUpTo(MatchRows, MaxRows) }

UserAgents == {"ab", "a", "b", "c"}

\* Leading tokens of a user agent with what follows them before the
\* parenthesis (the last one lacks the minor version)
Heads ==
    { "Mozilla/5.0 ", "Mozilla/5.0", "Opera/9.80 ", "UCWEB/2.0 ", "Mozilla/5 " }
\* Parenthesized comment bodies
Bodies ==
    { "Windows NT 6.1",
      "Windows NT 5.1; Trident/7.0",
      "compatible; MSIE 9.0; Windows NT 6.0",
      "Linux; Android 4.4",
      "iPhone; CPU iPhone OS 9_1 like Mac OS X",
      "iPad; CPU OS 9_1 like Mac OS X",
      "X11; CrOS x86_64",
      "Windows NT 6.2",
      "Windows NT 6.3",
      "Windows NT 10.0",
      "Windows 98",
      "Macintosh; Intel Mac OS X 10.8; rv:48.0",
      "X11; Ubuntu; Linux x86_64",
      "X11; Linux x86_64",
      "Windows\nNT 6.1; Trident/7.0",
      "" }
\* Trailing token sequences
Tails ==
    { "",
      " AppleWebKit/537.36 (KHTML, like Gecko) Chrome/50.0.2661.102 Safari/537.36",
      " Gecko/20100101 Firefox/48.0",
      " like Gecko",
      " Version/9.0 Safari/601.1",
      " Chromium/50.0 Chrome/50.0 Safari/537.36",
      " Chrome/49.0 Safari/537.36 OPR/36.0",
      " Chrome/46.0 Safari/537.36 Edge/13.0",
      " FxiOS/1.0 Safari/601.1",
      " UCBrowser/10.0 Safari/537.36",
      " CriOS/50.0 Safari/601.1",
      " Presto/2.12 Version/12.16",
      " Safari/600.1 CFNetwork/711 Darwin/14.0",
      " Darwin/14.0 Safari/600.1",
      " Safari/600.1\nDarwin/14.0",
      " Googlebot/2.1",
      " Safari/600.1 [FBAN/FBIOS]",
      " Firefox/48.0 PhantomJS/2.1",
      " Safari/600.1 Darwin/14.0 [FBAV/1.0] bingbot/2.0" }
\* User agents without the head/(body)/tail structure
PlainAgents ==
    { "curl/7.43",
      "MobileSafari/604.1 CFNetwork/978 Darwin/18.7",
      "Darwin/18.7 Safari/604.1",
      "facebookexternalhit/1.1",
      "Wget/1.17 (linux-gnu)",
      "Lynx/2.8",
      "Python-urllib/3.5" }
\* A short user agent with the head/(body)/tail structure
ShortAgents == { "Opera/9.0 (X11)" }

\* The user agents of the calls that return labels: one no rule matches,
\* one with the structure
LabelAgents == {"c"} \cup ShortAgents

\* The user agents idBrowserAnalytic and idBrowserFastAndDirty are studied on
StructuredAgents ==
    { Chars(h) \o <<"(">> \o Chars(b) \o <<")">> \o Chars(tl) :
          h \in Heads, b \in Bodies, tl \in Tails }
UaStrings == StructuredAgents \cup { Chars(u) : u \in PlainAgents \cup Tails }

\* Files for version negotiation: few rows, every kind of version marker
SmallRowSeqs ==
    { << >>,
      <<GroupDefaults>>,
      <<GroupDefaults, RawRow("Grp", "a*", "Chrome", "Win", "7", "3", "32", "1.5")>>,
      <<GroupDefaults, RawRow("Grp", "*b", "IE", "Win", "1", "3", "32", "1.5")>> }

\* (a marker "" is an empty second line)
LocalFiles ==
    { File(v, rows) : v \in {"1", "2", "x", ""}, rows \in SmallRowSeqs }
        \cup {UnreadableFile}
ServerFiles == { File(v, rows) : v \in {"1", "2"}, rows \in SmallRowSeqs }
VersionAnswers == {"0", "1", "2", "x", "URLError"}

---------------------------------------------------------------------------
(***************************************************************************)
(* BrowscapCache.__init__, steps 0 to 3: version negotiation.              *)
(***************************************************************************)
\* (mutant: the local file is opened for writing before the url is read)
downloadCSVFile_WritesFirst(next) ==
    /\ downloads' = downloads + 1
    /\ \/ /\ pc' = "raised"
          /\ l_contents_file' = NoFile
          /\ localFile' = UnreadableFile
       \/ \E f \in ServerFiles :
             /\ l_contents_file' = f
             /\ localFile' = f
             /\ pc' = next

\* BrowscapCache.downloadCSVFile, called from __init__ which goes on at
\* next when it returns
downloadCSVFile(next) ==
    /\ downloads' = downloads + 1
    /\ \/ \* opening or reading the url raises: logged and raised again,
          \* l_contents_file was not assigned
          /\ pc' = "raised"
          /\ l_contents_file' = NoFile
          /\ UNCHANGED localFile
       \/ \* the body is read, then written over the local file
          \E f \in ServerFiles :
             /\ l_contents_file' = f
             /\ localFile' = f
             /\ pc' = next
       \/ \* the body is read, but saving it raises: open(p_pathCsv, 'wb')
          \* fails and the file is as it was, or the write fails after the
          \* open has emptied the file
          \E f \in ServerFiles :
             /\ l_contents_file' = f
             /\ localFile' \in {localFile, UnreadableFile}
             /\ pc' = "raised"

\* (mutant: a missing file is not downloaded)
CheckLocalFile_NoDownload ==
    /\ pc = "isfile"
    /\ pc' = "localVersion"
    /\ UNCHANGED <<localFile, l_contents_file, downloads>>
    /\ UNCHANGED <<remoteVersion, l_localVersion, l_latestVersion,
                   startFile, self_dict, l_reader, l_defaults, l_cacheRows,
                   m_cacheRows, m_cachePrecompiled, m_rePrecompiled,
                   m_cachePrecompiledHeavy, q, reVars, concVars>>

\* step 0: if no local csv file --> download
CheckLocalFile ==
    /\ pc = "isfile"
    /\ IF ~localFile.exists
       THEN downloadCSVFile("localVersion")
       ELSE /\ pc' = "localVersion"
            /\ UNCHANGED <<localFile, l_contents_file, downloads>>
    /\ UNCHANGED <<remoteVersion, l_localVersion, l_latestVersion,
                   startFile, self_dict, l_reader, l_defaults, l_cacheRows,
                   m_cacheRows, m_cachePrecompiled, m_rePrecompiled,
                   m_cachePrecompiledHeavy, q, reVars, concVars>>

\* (mutant: the ValueError raised again at line 67 leaves __init__)
ReadLocalVersion_Raises ==
    /\ pc = "localVersion"
    /\ IF localFile.readable /\ localFile.version \in DOMAIN IntLiterals
       THEN /\ l_localVersion' = IntLiterals[localFile.version]
            /\ pc' = "latestVersion"
       ELSE /\ pc' = "raised"
            /\ UNCHANGED l_localVersion
    /\ UNCHANGED <<localFile, remoteVersion, l_latestVersion, downloads,
                   startFile, l_contents_file, self_dict, l_reader,
                   l_defaults, l_cacheRows, m_cacheRows, m_cachePrecompiled,
                   m_rePrecompiled, m_cachePrecompiledHeavy, q, reVars, concVars>>

\* step 1: int(l_line[0]) of the second line; l_localVersion stays 0 when
\* the file cannot be read or the marker is not an integer: every exception
\* is caught at line 74
ReadLocalVersion ==
    /\ pc = "localVersion"
    /\ l_localVersion' = IF localFile.readable
                              /\ localFile.version \in DOMAIN IntLiterals
                         THEN IntLiterals[localFile.version]
                         ELSE 0
    /\ pc' = "latestVersion"
    /\ UNCHANGED <<localFile, remoteVersion, l_latestVersion, downloads,
                   startFile, l_contents_file, self_dict, l_reader,
                   l_defaults, l_cacheRows, m_cacheRows, m_cachePrecompiled,
                   m_rePrecompiled, m_cachePrecompiledHeavy, q, reVars, concVars>>

\* (mutant: when the version cannot be fetched the local one is taken)
GetLatestVersion_FallsBack ==
    /\ pc = "latestVersion"
    /\ l_latestVersion' = IF remoteVersion \in DOMAIN IntLiterals
                          THEN IntLiterals[remoteVersion]
                          ELSE l_localVersion
    /\ pc' = "compare"
    /\ UNCHANGED <<localFile, remoteVersion, l_localVersion, downloads,
                   startFile, l_contents_file, self_dict, l_reader,
                   l_defaults, l_cacheRows, m_cacheRows, m_cachePrecompiled,
                   m_rePrecompiled, m_cachePrecompiledHeavy, q, reVars, concVars>>

\* step 2: BrowscapCache.getLatestVersion, which raises when the url cannot
\* be read or the answer is not an integer
GetLatestVersion ==
    /\ pc = "latestVersion"
    /\ IF remoteVersion \in DOMAIN IntLiterals
       THEN /\ l_latestVersion' = IntLiterals[remoteVersion]
            /\ pc' = "compare"
       ELSE /\ pc' = "raised"
            /\ UNCHANGED l_latestVersion
    /\ UNCHANGED <<localFile, remoteVersion, l_localVersion, downloads,
                   startFile, l_contents_file, self_dict, l_reader,
                   l_defaults, l_cacheRows, m_cacheRows, m_cachePrecompiled,
                   m_rePrecompiled, m_cachePrecompiledHeavy, q, reVars, concVars>>

\* (mutant: only a newer remote version counts)
VersionsDiffer_OnlyNewer(latest, local) == latest > local

\* l_latestVersion != l_localVersion
VersionsDiffer(latest, local) == latest # local

\* step 3: if versions differ --> download; then the file is opened for
\* step 4, which raises when it cannot be read
CompareVersions ==
    /\ pc = "compare"
    /\ IF VersionsDiffer(l_latestVersion, l_localVersion)
       THEN downloadCSVFile("load")
       ELSE /\ pc' = IF localFile.readable THEN "load" ELSE "raised"
            /\ UNCHANGED <<localFile, l_contents_file, downloads>>
    /\ UNCHANGED <<remoteVersion, l_localVersion, l_latestVersion,
                   startFile, self_dict, l_reader, l_defaults, l_cacheRows,
                   m_cacheRows, m_cachePrecompiled, m_rePrecompiled,
                   m_cachePrecompiledHeavy, q, reVars, concVars>>

(***************************************************************************)
(* BrowscapCache.__init__, step 4: the rows are read one by one.           *)
(***************************************************************************)
\* (mutant: the row with empty parent is not recognised)
IsDefaultOfDefaults_Never(l_line) == FALSE

\* l_line['parent'] == ''
IsDefaultOfDefaults(l_line) == PyEqStr(l_line["parent"], "")

\* l_line['parent'] == 'DefaultProperties'
IsGroupDefaults(l_line) == PyEqStr(l_line["parent"], "DefaultProperties")

\* (mutant: only the first DefaultProperties line is kept)
StoreDefaults_KeepFirst(l_line, defaults) ==
    IF DOMAIN defaults = {} THEN l_line ELSE defaults

\* l_defaults after a DefaultProperties line has been read
StoreDefaults(l_line, defaults) == l_line

\* one turn of "for l_line in l_reader"
ReadRow ==
    /\ pc = "load"
    /\ l_reader < Len(localFile.rows)
    /\ l_reader' = l_reader + 1
    /\ LET l_line == pythonize(localFile.rows[l_reader + 1])
       IN  IF IsDefaultOfDefaults(l_line)
           THEN UNCHANGED <<pc, l_defaults, l_cacheRows>>
           ELSE IF IsGroupDefaults(l_line)
           THEN /\ l_defaults' = StoreDefaults(l_line, l_defaults)
                /\ UNCHANGED <<pc, l_cacheRows>>
           ELSE IF replace_defaults_raises(l_line, l_defaults)
           THEN /\ pc' = "raised"
                /\ UNCHANGED <<l_defaults, l_cacheRows>>
           ELSE /\ l_cacheRows' =
                       Append(l_cacheRows, replace_defaults(l_line, l_defaults))
                /\ UNCHANGED <<pc, l_defaults>>
    /\ UNCHANGED <<localFile, remoteVersion, l_localVersion, l_latestVersion,
                   downloads, startFile, l_contents_file, self_dict,
                   m_cacheRows, m_cachePrecompiled, m_rePrecompiled,
                   m_cachePrecompiledHeavy, q, reVars, concVars>>

\* the reader is exhausted: self.m_cacheRows = l_cacheRows
StoreRows ==
    /\ pc = "load"
    /\ l_reader = Len(localFile.rows)
    /\ m_cacheRows' = l_cacheRows
    /\ self_dict' = self_dict \cup {"m_cacheRows"}
    /\ pc' = "initCacheMedium"
    /\ UNCHANGED <<localFile, remoteVersion, l_localVersion, l_latestVersion,
                   downloads, startFile, l_contents_file, l_reader,
                   l_defaults, l_cacheRows, m_cachePrecompiled, m_rePrecompiled,
                   m_cachePrecompiledHeavy, q, reVars, concVars>>

(***************************************************************************)
(* BrowscapCache.__init__, the three tiers.                                *)
(***************************************************************************)
InitCacheMedium ==
    /\ pc = "initCacheMedium"
    /\ m_cachePrecompiled' = initCacheMedium(m_cacheRows)
    /\ self_dict' = self_dict \cup {"m_cachePrecompiled"}
    /\ pc' = "initCacheFast"
    /\ UNCHANGED <<localFile, remoteVersion, l_localVersion, l_latestVersion,
                   downloads, startFile, l_contents_file, l_reader,
                   l_defaults, l_cacheRows, m_cacheRows, m_rePrecompiled,
                   m_cachePrecompiledHeavy, q, reVars, concVars>>

InitCacheFast ==
    /\ pc = "initCacheFast"
    /\ m_rePrecompiled' = initCacheFast
    /\ self_dict' = self_dict \cup {"m_rePrecompiled"}
    /\ pc' = "initCacheHeavy"
    /\ UNCHANGED <<localFile, remoteVersion, l_localVersion, l_latestVersion,
                   downloads, startFile, l_contents_file, l_reader,
                   l_defaults, l_cacheRows, m_cacheRows, m_cachePrecompiled,
                   m_cachePrecompiledHeavy, q, reVars, concVars>>

\* (mutant: __init__ does not build the Heavy tier)
InitCacheHeavy_Skipped ==
    /\ pc = "initCacheHeavy"
    /\ pc' = "done"
    /\ UNCHANGED <<localFile, remoteVersion, l_localVersion, l_latestVersion,
                   downloads, startFile, l_contents_file, self_dict, l_reader,
                   l_defaults, l_cacheRows, m_cacheRows, m_cachePrecompiled,
                   m_rePrecompiled, m_cachePrecompiledHeavy, q, reVars, concVars>>

InitCacheHeavy ==
    /\ pc = "initCacheHeavy"
    /\ m_cachePrecompiledHeavy' = initCacheHeavy(m_cacheRows)
    /\ self_dict' = self_dict \cup {"m_cachePrecompiledHeavy"}
    /\ pc' = "done"
    /\ UNCHANGED <<localFile, remoteVersion, l_localVersion, l_latestVersion,
                   downloads, startFile, l_contents_file, l_reader,
                   l_defaults, l_cacheRows, m_cacheRows, m_cachePrecompiled,
                   m_rePrecompiled, q, reVars, concVars>>

(***************************************************************************)
(* The matchers, called on the constructed instance.                       *)
(***************************************************************************)
IdBrowserHeavy ==
    /\ pc = "done"
    /\ \E ua \in UserAgents :
          LET tier == IF "m_cachePrecompiledHeavy" \notin self_dict
                      THEN initCacheHeavy(m_cacheRows)
                      ELSE m_cachePrecompiledHeavy
          IN  /\ m_cachePrecompiledHeavy' = tier
              /\ self_dict' = self_dict \cup {"m_cachePrecompiledHeavy"}
              /\ q' = [fn |-> "idBrowserHeavy", ua |-> ua,
                       row |-> idBrowserHeavy(tier, ua),
                       browser |-> "", platform |-> ""]
    /\ UNCHANGED <<pc, localFile, remoteVersion, l_localVersion, l_latestVersion,
                   downloads, startFile, l_contents_file, l_reader,
                   l_defaults, l_cacheRows, m_cacheRows, m_cachePrecompiled,
                   m_rePrecompiled, reVars, concVars>>

IdBrowserMedium ==
    /\ pc = "done"
    /\ \E ua \in UserAgents :
          LET tier == IF "m_cachePrecompiled" \notin self_dict
                      THEN initCacheMedium(m_cacheRows)
                      ELSE m_cachePrecompiled
          IN  /\ m_cachePrecompiled' = tier
              /\ self_dict' = self_dict \cup {"m_cachePrecompiled"}
              /\ q' = [fn |-> "idBrowserMedium", ua |-> ua,
                       row |-> idBrowserMedium(tier, ua),
                       browser |-> "", platform |-> ""]
    /\ UNCHANGED <<pc, localFile, remoteVersion, l_localVersion, l_latestVersion,
                   downloads, startFile, l_contents_file, l_reader,
                   l_defaults, l_cacheRows, m_cacheRows, m_rePrecompiled,
                   m_cachePrecompiledHeavy, reVars, concVars>>

IdBrowserSlow ==
    /\ pc = "done"
    /\ \E ua \in UserAgents :
          q' = [fn |-> "idBrowserSlow", ua |-> ua,
                row |-> idBrowserSlow(m_cacheRows, ua),
                browser |-> "", platform |-> ""]
    /\ UNCHANGED <<ctorVars, m_cachePrecompiledHeavy, reVars, concVars>>

\* a label is returned, no row
IdBrowserFastAndDirty ==
    /\ pc = "done"
    /\ \E ua \in LabelAgents :
          LET tier == IF "m_rePrecompiled" \notin self_dict
                      THEN initCacheFast
                      ELSE m_rePrecompiled
          IN  /\ m_rePrecompiled' = tier
              /\ self_dict' = self_dict \cup {"m_rePrecompiled"}
              /\ q' = [fn |-> "idBrowserFastAndDirty", ua |-> ua,
                       row |-> ReturnsNone,
                       browser |-> idBrowserFastAndDirty(tier, Chars(ua)),
                       platform |-> ""]
    /\ UNCHANGED <<pc, localFile, remoteVersion, l_localVersion, l_latestVersion,
                   downloads, startFile, l_contents_file, l_reader,
                   l_defaults, l_cacheRows, m_cacheRows, m_cachePrecompiled,
                   m_cachePrecompiledHeavy, reVars, concVars>>

\* a pair (browser, platform) is returned, no row
IdBrowserAnalytic ==
    /\ pc = "done"
    /\ \E ua \in LabelAgents :
          \E r \in {idBrowserAnalytic(Chars(ua))} :
              q' = [fn |-> "idBrowserAnalytic", ua |-> ua, row |-> ReturnsNone,
                    browser |-> r.browser, platform |-> r.platform]
    /\ UNCHANGED <<ctorVars, m_cachePrecompiledHeavy, reVars, concVars>>

(***************************************************************************)
(* idBrowserFastAndDirty and idBrowserAnalytic taken alone, on one user    *)
(* agent out of many, called on an instance constructed from a dataset     *)
(* without rows.                                                           *)
(***************************************************************************)
NotCalled == "pending"

FastAndDirtyOfUa ==
    /\ pc = "done"
    /\ l_found.fast = NotCalled
    /\ l_found' = [l_found EXCEPT
                      !.fast = idBrowserFastAndDirty(m_rePrecompiled, p_ua)]
    /\ UNCHANGED <<ctorVars, m_cachePrecompiledHeavy, q, concVars,
                   p_uaPattern, p_ua, l_re>>

AnalyticOfUa ==
    /\ pc = "done"
    /\ l_found.browser = NotCalled
    /\ \E r \in {idBrowserAnalytic(p_ua)} :
          l_found' = [l_found EXCEPT !.browser = r.browser, !.platform = r.platform]
    /\ UNCHANGED <<ctorVars, m_cachePrecompiledHeavy, q, concVars,
                   p_uaPattern, p_ua, l_re>>

---------------------------------------------------------------------------
(***************************************************************************)
(* A tier rebuilt on the constructed instance while another thread runs a  *)
(* query.  Thread b calls initCacheHeavy, thread t calls idBrowserHeavy;   *)
(* the interpreter switches threads between the statements of either.  The *)
(* for loop of t iterates the list object the attribute was bound to when  *)
(* the loop was entered, and sees what is appended to that object later.   *)
(***************************************************************************)
\* initCacheHeavy: self.m_cachePrecompiledHeavy = []
RebuildReset ==
    /\ pc = "done"
    /\ b_pc = "idle"
    /\ Len(detached) < MaxRebuilds
    /\ detached' = Append(detached, m_cachePrecompiledHeavy)
    /\ m_cachePrecompiledHeavy' = << >>
    /\ b_pc' = "for"
    /\ b_row' = 0
    /\ UNCHANGED <<ctorVars, q, reVars, t_pc, t_iter, t_ua, t_result>>

\* initCacheHeavy: one turn of the loop, an append
RebuildAppend ==
    /\ b_pc = "for"
    /\ b_row < Len(m_cacheRows)
    /\ m_cachePrecompiledHeavy' =
           Append(m_cachePrecompiledHeavy, CompiledRow(m_cacheRows, b_row + 1))
    /\ b_row' = b_row + 1
    /\ UNCHANGED <<ctorVars, q, reVars, detached, b_pc, t_pc, t_iter, t_ua, t_result>>

\* initCacheHeavy: the loop ends, the call returns
RebuildReturn ==
    /\ b_pc = "for"
    /\ b_row = Len(m_cacheRows)
    /\ b_pc' = "idle"
    /\ UNCHANGED <<ctorVars, m_cachePrecompiledHeavy, q, reVars, detached, b_row,
                   t_pc, t_iter, t_ua, t_result>>

\* The list object an iterator created after obj rebinds iterates
ListObject(obj) ==
    IF obj = Len(detached) THEN m_cachePrecompiledHeavy ELSE detached[obj + 1]

\* idBrowserHeavy: the attribute exists, the for loop takes its iterator
QueryEnter ==
    /\ pc = "done"
    /\ t_pc = "idle"
    /\ "m_cachePrecompiledHeavy" \in self_dict
    /\ \E ua \in UserAgents : t_ua' = ua
    /\ t_iter' = [obj |-> Len(detached), idx |-> 0]
    /\ t_pc' = "for"
    /\ UNCHANGED <<ctorVars, m_cachePrecompiledHeavy, q, reVars, detached, b_pc,
                   b_row, t_result>>

\* idBrowserHeavy: one turn of the loop, or its end
QueryNext ==
    /\ t_pc = "for"
    /\ LET list == ListObject(t_iter.obj)
       IN  IF t_iter.idx < Len(list)
           THEN IF re_search(list[t_iter.idx + 1].re, Chars(t_ua))
                THEN /\ t_result' = list[t_iter.idx + 1].row
                     /\ t_pc' = "returned"
                     /\ UNCHANGED t_iter
                ELSE /\ t_iter' = [t_iter EXCEPT !.idx = @ + 1]
                     /\ UNCHANGED <<t_pc, t_result>>
           ELSE /\ t_result' = ReturnsNone
                /\ t_pc' = "returned"
                /\ UNCHANGED t_iter
    /\ UNCHANGED <<ctorVars, m_cachePrecompiledHeavy, q, reVars, detached, b_pc,
                   b_row, t_ua>>

---------------------------------------------------------------------------
(***************************************************************************)
(* Specifications.                                                         *)
(***************************************************************************)
NoCall == [fn |-> "", ua |-> "", row |-> 0, browser |-> "", platform |-> ""]

\* __init__ entered with file f at p_pathCsv, about to run from position at
CtorAt(at, f, local, latest) ==
    /\ pc = at
    /\ localFile = f
    /\ startFile = f
    /\ l_localVersion = local
    /\ l_latestVersion = latest
    /\ downloads = 0
    /\ l_contents_file = NoFile
    /\ self_dict = {}
    /\ l_reader = 0
    /\ l_defaults = EmptyDict
    /\ l_cacheRows = << >>
    /\ m_cacheRows = << >>
    /\ m_cachePrecompiled = << >>
    /\ m_rePrecompiled = << >>
    /\ m_cachePrecompiledHeavy = << >>
    /\ q = NoCall

ReIdle ==
    /\ p_uaPattern = << >>
    /\ p_ua = << >>
    /\ l_re = NotCompiled
    /\ l_found = "pending"

ConcIdle ==
    /\ detached = << >>
    /\ b_pc = "idle"
    /\ b_row = 0
    /\ t_pc = "idle"
    /\ t_iter = [obj |-> 0, idx |-> 0]
    /\ t_ua = ""
    /\ t_result = 0

Negotiate  == CheckLocalFile \/ ReadLocalVersion \/ GetLatestVersion \/ CompareVersions
Load       == ReadRow \/ StoreRows
BuildTiers == InitCacheMedium \/ InitCacheFast \/ InitCacheHeavy
Query      == \/ IdBrowserHeavy \/ IdBrowserMedium \/ IdBrowserSlow
              \/ IdBrowserFastAndDirty \/ IdBrowserAnalytic
Rebuild    == RebuildReset \/ RebuildAppend \/ RebuildReturn
QueryThread == QueryEnter \/ QueryNext

\* The constructor from its first statement, on small files
InitStart ==
    /\ \E f \in {NoFile} \cup LocalFiles : CtorAt("isfile", f, 0, 0)
    /\ remoteVersion \in VersionAnswers
    /\ ReIdle
    /\ ConcIdle
SpecInit == InitStart /\ [][Negotiate \/ Load \/ BuildTiers]_vars

\* The constructor from step 4 (the local file is current), on files that
\* exercise normalization
InitNorm ==
    /\ \E f \in NormFiles : CtorAt("load", f, 1, 1)
    /\ remoteVersion = "1"
    /\ ReIdle
    /\ ConcIdle
SpecNorm == InitNorm /\ [][Load \/ BuildTiers]_vars

\* The constructor from step 4, on files that exercise matching, then
\* the matchers
InitMatch ==
    /\ \E f \in MatchFiles : CtorAt("load", f, 1, 1)
    /\ remoteVersion = "1"
    /\ ReIdle
    /\ ConcIdle
Next == Load \/ BuildTiers \/ Query
Spec == InitMatch /\ [][Next]_vars

\* The same, then a rebuild of the Heavy tier concurrent with a query
SpecConc == InitMatch /\ [][Load \/ BuildTiers \/ Rebuild \/ QueryThread]_vars

\* uaPattern2re and re.search taken alone
InitRe ==
    /\ CtorAt("re", NoFile, 0, 0)
    /\ remoteVersion = "1"
    /\ ConcIdle
    /\ p_uaPattern \in SeqsUpTo(PatChars, MaxPatLen)
    /\ p_ua \in SeqsUpTo(StrChars, MaxStrLen)
    /\ l_re = NotCompiled
    /\ l_found = "pending"
SpecRe == InitRe /\ [][Compile \/ Search]_vars

\* idBrowserFastAndDirty and idBrowserAnalytic taken alone: __init__ loads a
\* current local file, without rows or with rows, and then the two are
\* called with one user agent out of many
UaFiles ==
    { File("1", rows) :
        rows \in { << >>,
                   <<GroupDefaults,
                     RawRow("Grp", "a*", "Chrome", "Win", "7", "3", "32", "1.5")>> } }
InitUa ==
    /\ \E f \in UaFiles : CtorAt("load", f, 1, 1)
    /\ remoteVersion = "1"
    /\ ConcIdle
    /\ p_uaPattern = << >>
    /\ l_re = NotCompiled
    /\ p_ua \in UaStrings
    /\ l_found = [fast |-> NotCalled, browser |-> NotCalled, platform |-> NotCalled]
SpecUa ==
    InitUa /\ [][Load \/ BuildTiers \/ FastAndDirtyOfUa \/ AnalyticOfUa]_vars

---------------------------------------------------------------------------
(***************************************************************************)
(* Properties of the Pattern Compiler (under SpecRe).                      *)
(***************************************************************************)
HasWildcard(p) == \E i \in 1..Len(p) : p[i] \in {"?", "*"}

\* The wildcard language of the dataset: "?" is one arbitrary character,
\* "*" is zero or more arbitrary characters, anything else is itself
RECURSIVE WildcardMatch(_, _)
WildcardMatch(p, s) ==
    IF Len(p) = 0 THEN Len(s) = 0
    ELSE IF p[1] = "*"
         THEN \E k \in 0..Len(s) : WildcardMatch(Drop(p, 1), Drop(s, k))
         ELSE /\ Len(s) > 0
              /\ p[1] = "?" \/ p[1] = s[1]
              /\ WildcardMatch(Drop(p, 1), Drop(s, 1))

\* C5: a pattern without "?" and "*", compiled by uaPattern2re and used
\* with re.search, matches a string exactly when the string equals the
\* pattern (in particular not the pattern followed by a line terminator).
C5_LiteralPatternMatchesOnlyItself ==
    (l_found # "pending" /\ ~HasWildcard(p_uaPattern))
        => ((l_found = "match") <=> (p_ua = p_uaPattern))

\* C6: the regex of uaPattern2re matches a string exactly when the
\* wildcard pattern does, "?" standing for one arbitrary character, "*" for
\* zero or more arbitrary characters and every other character for itself.
C6_RegexAgreesWithWildcard ==
    l_found # "pending"
        => ((l_found = "match") <=> WildcardMatch(p_uaPattern, p_ua))

---------------------------------------------------------------------------
(***************************************************************************)
(* Properties of the Dataset Normalizer (under SpecNorm).                  *)
(***************************************************************************)
\* The raw rows that are data rows: parent neither empty nor DefaultProperties
IsDataRaw(raw) == raw.Parent \notin {"", "DefaultProperties"}
DataIndices(rows, n) == { i \in 1..n : IsDataRaw(rows[i]) }

\* The file position of the k-th data row
KthData(rows, k) ==
    CHOOSE i \in DataIndices(rows, Len(rows)) :
        Cardinality(DataIndices(rows, i)) = k

\* The DefaultProperties rows before position i, and the group active there
GroupIndices(rows, i) == { j \in 1..(i - 1) : rows[j].Parent = "DefaultProperties" }
GroupAt(rows, i) ==
    IF GroupIndices(rows, i) = {} THEN EmptyDict
    ELSE pythonize(rows[SetMax(GroupIndices(rows, i))])

\* A raw row resolved against defaults row D ({} when that raises)
Resolved(raw, D) ==
    IF replace_defaults_raises(pythonize(raw), D) THEN EmptyDict
    ELSE replace_defaults(pythonize(raw), D)

\* The rows the loop has fully handled (a row that raised was not)
Handled == IF pc = "raised" THEN l_reader - 1 ELSE l_reader

\* C3: whenever a raw field of a data row is the literal "default", the
\* normalized row holds for that field the value of the defaults group that
\* was active when the row was read (integer fields included).
C3_DefaultLiteralTakesGroupValue ==
    \A k \in 1..Len(l_cacheRows) :
        LET i   == KthData(localFile.rows, k)
            raw == localFile.rows[i]
        IN  \A col \in DOMAIN raw :
                raw[col] = "default"
                    => /\ str_lower(col) \in DOMAIN GroupAt(localFile.rows, i)
                       /\ l_cacheRows[k][str_lower(col)]
                            = GroupAt(localFile.rows, i)[str_lower(col)]

\* C8: the rows appended are exactly the data rows read so far, one each and
\* in file order (each is some resolution of its raw row); the stored
\* dataset is that list for the whole file; the active defaults group is
\* never a row with empty parent, and no appended row is a group row.
C8_DatasetIsTheDataRowsInOrder ==
    /\ Len(l_cacheRows) = Cardinality(DataIndices(localFile.rows, Handled))
    /\ \A k \in 1..Len(l_cacheRows) :
          LET i == KthData(localFile.rows, k)
          IN  \E j \in 1..i :
                 /\ j = i \/ localFile.rows[j].Parent = "DefaultProperties"
                 /\ l_cacheRows[k] =
                        Resolved(localFile.rows[i],
                                 IF j = i THEN EmptyDict
                                 ELSE pythonize(localFile.rows[j]))
    /\ "m_cacheRows" \in self_dict
          => /\ m_cacheRows = l_cacheRows
             /\ Len(m_cacheRows)
                  = Cardinality(DataIndices(localFile.rows, Len(localFile.rows)))
    /\ DOMAIN l_defaults # {}
          => l_defaults["parent"] = PyStr("DefaultProperties")

\* C8 witness: a file with a row of empty parent, a group row and a data row
\* has been loaded, and the dataset is the one data row
C8_Witness ==
    /\ "m_cacheRows" \in self_dict
    /\ Len(m_cacheRows) = 1
    /\ \E i, j \in 1..Len(localFile.rows) :
          /\ localFile.rows[i].Parent = ""
          /\ localFile.rows[j].Parent = "DefaultProperties"

\* C9: the active group is the most recent DefaultProperties row read, and
\* every appended row, at every later point of the load, is its raw row
\* resolved against the group that was the most recent one before it.
C9_ResolvedAgainstMostRecentGroup ==
    /\ l_defaults = GroupAt(localFile.rows, Handled + 1)
    /\ \A k \in 1..Len(l_cacheRows) :
          LET i == KthData(localFile.rows, k)
          IN  l_cacheRows[k] =
                  Resolved(localFile.rows[i], GroupAt(localFile.rows, i))

\* C9 witness: a data row with "default" values was appended under one
\* group, and a different group row has been read after it
C9_Witness ==
    /\ Len(l_cacheRows) >= 1
    /\ LET i == KthData(localFile.rows, 1)
       IN  /\ localFile.rows[i].Platform = "default"
           /\ GroupAt(localFile.rows, i) # EmptyDict
           /\ l_defaults # GroupAt(localFile.rows, i)
           /\ l_cacheRows[1] =
                  Resolved(localFile.rows[i], GroupAt(localFile.rows, i))
           /\ l_cacheRows[1] # Resolved(localFile.rows[i], l_defaults)

\* The raw row l_defaults was made of
GroupRaw == localFile.rows[SetMax(GroupIndices(localFile.rows, Handled + 1))]

IsTrueWord(raw)  == str_lower(raw) = "true"
IsFalseWord(raw) == str_lower(raw) = "false"
IsBoolWord(raw)  == IsTrueWord(raw) \/ IsFalseWord(raw)

\* C25: pythonize lower-cases every column name; a value that is true or
\* false, whatever its case, becomes the boolean in every column; any
\* other value of majorver, browser_bits, platform_bits, minorver becomes
\* the integer it spells, 0 when it spells none; any other value of
\* cssversion, aolversion, version, renderingengine_version,
\* platform_version becomes the float it spells, 0.0 when it spells none;
\* every other value is the string unchanged.  The load goes on past a
\* value that spells no number: only the resolution of a data row raises.
C25_PythonizeTypesByFirstRule ==
    /\ DOMAIN l_defaults # {}
         => /\ DOMAIN l_defaults = { str_lower(c) : c \in DOMAIN GroupRaw }
            /\ \A c \in DOMAIN GroupRaw :
                  LET raw   == GroupRaw[c]
                      f     == str_lower(c)
                      typed == l_defaults[f]
                  IN  /\ IsTrueWord(raw)  => typed = PyBool(TRUE)
                      /\ IsFalseWord(raw) => typed = PyBool(FALSE)
                      /\ (~IsBoolWord(raw) /\ f \in IntFields)
                            => typed = PyInt(IF raw \in DOMAIN IntLiterals
                                             THEN IntLiterals[raw] ELSE 0)
                      /\ (~IsBoolWord(raw) /\ f \in FloatFields)
                            => typed = PyFloat(IF raw \in DOMAIN FloatLiterals
                                               THEN FloatLiterals[raw] ELSE 0)
                      /\ (~IsBoolWord(raw) /\ f \notin IntFields \cup FloatFields)
                            => typed = PyStr(raw)
    /\ pc = "raised" => IsDataRaw(localFile.rows[l_reader])

\* C25 witness: a group row with True and FALSE in columns of every type
\* has been typed, and a data row was read after it
C25_Witness ==
    /\ DOMAIN l_defaults # {}
    /\ GroupRaw.MajorVer = "True"
    /\ GroupRaw.Version = "FALSE"
    /\ l_defaults["majorver"] = PyBool(TRUE)
    /\ l_defaults["version"] = PyBool(FALSE)
    /\ l_defaults["propertyname"] = PyBool(TRUE)
    /\ Len(l_cacheRows) >= 1

\* C25, values that spell no number are reached too, and the load went on
C25_ParseFailureReached ==
    /\ DOMAIN l_defaults # {}
    /\ GroupRaw.MajorVer = "default"
    /\ GroupRaw.Version = "default"
    /\ l_defaults["majorver"] = PyInt(0)
    /\ l_defaults["version"] = PyFloat(0)
    /\ pc = "done"

\* The rows replace_defaults has been called for: the data rows read so
\* far, the one whose call raised included
ResolvedIndices == DataIndices(localFile.rows, l_reader)

\* C22: whenever replace_defaults is called for a data row, a defaults
\* group is active: a DefaultProperties row has been read before the row,
\* and the most recent one has a value for every field of the row.
C22_GroupActiveWhenRowIsResolved ==
    \A i \in ResolvedIndices :
        /\ GroupIndices(localFile.rows, i) # {}
        /\ DOMAIN pythonize(localFile.rows[i]) \subseteq DOMAIN GroupAt(localFile.rows, i)

\* The fields whose numeric zero is replaced by the group's value
ZeroIsDefaultFields ==
    {"browser_bits", "platform_bits", "minorver", "cssversion", "aolversion",
     "version", "renderingengine_version", "platform_version"}

\* A typed value that is the number zero
IsNumericZero(v) == v.t \in {"int", "float"} /\ v.n = 0

\* C23: in a row resolved under an active group, a typed value that is
\* numeric zero becomes the group's value in the fields browser_bits,
\* platform_bits, minorver, cssversion, aolversion, version,
\* renderingengine_version, platform_version, and stays zero in every
\* other field.
C23_NumericZeroTakesGroupValue ==
    \A k \in 1..Len(l_cacheRows) :
        LET i     == KthData(localFile.rows, k)
            typed == pythonize(localFile.rows[i])
            group == GroupAt(localFile.rows, i)
        IN  group # EmptyDict
              => \A f \in DOMAIN typed :
                    IsNumericZero(typed[f])
                      => l_cacheRows[k][f] =
                            IF f \in ZeroIsDefaultFields THEN group[f] ELSE typed[f]

---------------------------------------------------------------------------
(***************************************************************************)
(* Properties of the matchers (under Spec).                                *)
(***************************************************************************)
\* Row i's pattern, compiled, matches ua
RowMatches(i, ua) ==
    re_search(uaPattern2re(Chars(m_cacheRows[i]["propertyname"].s)), Chars(ua))

\* The first of the rows in S that matches ua, or no match
FirstMatchAmong(S, ua) ==
    LET M == { i \in S : RowMatches(i, ua) }
    IN  IF M = {} THEN ReturnsNone ELSE SetMin(M)

AllRows == 1..Len(m_cacheRows)

\* C1: what idBrowserHeavy returned is what idBrowserSlow returns for the
\* same user agent on the same instance, and the other way round: both no
\* match, or both the row at the same index of m_cacheRows.
C1_HeavyEqualsSlow ==
    /\ q.fn = "idBrowserHeavy" => q.row = idBrowserSlow(m_cacheRows, q.ua)
    /\ q.fn = "idBrowserSlow"
          => q.row = idBrowserHeavy(m_cachePrecompiledHeavy, q.ua)

\* C1 witness: Heavy returned the second row, the first one not matching
C1_Witness ==
    /\ q.fn = "idBrowserHeavy"
    /\ q.row = 2
    /\ ~RowMatches(1, q.ua)
    /\ idBrowserSlow(m_cacheRows, q.ua) = 2

\* The rows of the curated browsers, all versions
CuratedRows == { i \in AllRows : InBrowserList(m_cacheRows[i]["browser"]) }

\* The largest majorver over all rows with row i's browser
BrowserMaxVer(i) ==
    SetMax({ m_cacheRows[j]["majorver"].n :
                j \in { j \in AllRows :
                          m_cacheRows[j]["browser"] = m_cacheRows[i]["browser"] } })

\* The rows of the curated browsers less than l_deltaVer versions behind
RecentCuratedRows ==
    { i \in CuratedRows : BrowserMaxVer(i) - m_cacheRows[i]["majorver"].n < 6 }

\* C2 as claimed: if idBrowserMedium returns a row, a first-match scan over
\* the rows of the curated browsers (all versions, file order) returns
\* that row.
C2_MediumEqualsHeavyOnCuratedBrowsers ==
    (q.fn = "idBrowserMedium" /\ q.row # ReturnsNone)
        => q.row = FirstMatchAmong(CuratedRows, q.ua)

\* C2 amended: if idBrowserMedium returns a row, a first-match scan over
\* the rows of the curated browsers whose majorver is less than 6 below
\* the largest majorver of their browser (file order) returns that row.
C2_MediumEqualsHeavyOnRecentCuratedRows ==
    (q.fn = "idBrowserMedium" /\ q.row # ReturnsNone)
        => q.row = FirstMatchAmong(RecentCuratedRows, q.ua)

\* C2 witness: Medium returned a row although an earlier row of a curated
\* browser, too old for the tier, matches
C2_Witness ==
    /\ q.fn = "idBrowserMedium"
    /\ q.row # ReturnsNone
    /\ FirstMatchAmong(CuratedRows, q.ua) < q.row

\* C10: idBrowserHeavy returns the row of smallest index among the rows
\* whose compiled pattern matches, and no match when there is none.
C10_HeavyReturnsFirstMatchingRow ==
    q.fn = "idBrowserHeavy" => q.row = FirstMatchAmong(AllRows, q.ua)

\* C10 witness: two rows match and Heavy returned the first of them
C10_Witness ==
    /\ q.fn = "idBrowserHeavy"
    /\ q.row = 1
    /\ Cardinality({ i \in AllRows : RowMatches(i, q.ua) }) >= 2

\* C10 witness of the other case is reachable too: nothing matches
C10_NoMatchReached ==
    /\ q.fn = "idBrowserHeavy"
    /\ Len(m_cacheRows) >= 1
    /\ q.row = ReturnsNone

\* The rows of a tier's entries, in the order of the tier
TierRows(tier) == [i \in 1..Len(tier) |-> tier[i].row]

\* a is b with some elements left out, the others in the same order
IsSubsequence(a, b) ==
    \E f \in [1..Len(a) -> 1..Len(b)] :
        /\ \A i, j \in 1..Len(a) : i < j => f[i] < f[j]
        /\ \A i \in 1..Len(a) : a[i] = b[f[i]]

\* C11: once constructed, the rows of the Heavy tier are the rows of
\* m_cacheRows, each once and in the same order, and the rows of the Medium
\* tier are a subsequence of the rows of the Heavy tier.
C11_MediumIsSubsequenceOfHeavy ==
    pc = "done"
        => /\ TierRows(m_cachePrecompiledHeavy) = [i \in 1..Len(m_cacheRows) |-> i]
           /\ IsSubsequence(TierRows(m_cachePrecompiled),
                            TierRows(m_cachePrecompiledHeavy))

\* C11 witness: two rows were loaded, both are in the Medium tier
C11_Witness ==
    /\ pc = "done"
    /\ Len(m_cachePrecompiledHeavy) = 2
    /\ TierRows(m_cachePrecompiled) = <<1, 2>>

\* C11, the other case is reached too: the Medium tier left the first row out
C11_StrictSubsequenceReached ==
    /\ pc = "done"
    /\ Len(m_cachePrecompiledHeavy) = 2
    /\ TierRows(m_cachePrecompiled) = <<2>>

\* s contains w
Contains(s, w) ==
    \E <<str, word>> \in { <<s, w>> } :
        \E i \in 1..(Len(str) - Len(word) + 1) : OccursAt(str, word, i)

\* s contains one of the words W
ContainsAny(s, W) == \E w \in W : Contains(s, Chars(w))

\* s contains word a and, later on the same line, word b
FollowedBy(s, a, b) ==
    \E <<str, wa, wb>> \in { <<s, Chars(a), Chars(b)>> } :
        \E i \in 1..Len(str) :
            /\ OccursAt(str, wa, i)
            /\ \E j \in (i + Len(wa))..Len(str) :
                  /\ OccursAt(str, wb, j)
                  /\ \A k \in (i + Len(wa))..(j - 1) : str[k] # "\n"

BotTokens    == {"bot", "spider", "crawl", "curl", "wget", "python", "phantomjs"}
SocialTokens == {"facebookexternalhit", "FBAN", "FBAV", "FBBV", "FBRV", "FBDV",
                 "FBSN", "FBSV", "FBSS", "FBCR", "FBIOS"}

\* One of the three post-processing overrides applies to ua
OverrideApplies(ua) ==
    \/ FollowedBy(lower(ua), "safari", "darwin")
    \/ ContainsAny(ua, SocialTokens)
    \/ ContainsAny(lower(ua), BotTokens)

\* C12: a matcher that finds nothing returns its empty result: Heavy, Slow
\* and Medium return None when no row of the dataset (of the Medium tier)
\* matches, FastAndDirty returns its sentinel label when no rule matches,
\* Analytic returns ("Unknown", "Unknown") when the user agent lacks the
\* head/(body)/tail structure and no override applies; no call raises.
C12_NoMatchIsAResult ==
    /\ (q.fn \in {"idBrowserHeavy", "idBrowserSlow"}
            /\ \A i \in AllRows : ~RowMatches(i, q.ua))
         => q.row = ReturnsNone
    /\ (q.fn = "idBrowserMedium"
            /\ \A i \in 1..Len(m_cachePrecompiled) :
                  ~RowMatches(m_cachePrecompiled[i].row, q.ua))
         => q.row = ReturnsNone
    /\ (q.fn = "idBrowserFastAndDirty"
            /\ \A i \in 1..Len(l_reList) : ~re_search_src(l_reList[i], Chars(q.ua)))
         => q.browser = "Unknows"
    /\ (q.fn = "idBrowserAnalytic"
            /\ ~l_match(Chars(q.ua)).found
            /\ ~OverrideApplies(Chars(q.ua)))
         => q.browser = "Unknown" /\ q.platform = "Unknown"
    /\ q.fn # "" => pc = "done"

\* C12 witness: on a dataset with rows, Slow was called with a user agent
\* no row matches
C12_Witness ==
    /\ q.fn = "idBrowserSlow"
    /\ Len(m_cacheRows) >= 1
    /\ \A i \in AllRows : ~RowMatches(i, q.ua)

\* C12, the other empty results are reached too
C12_SentinelReached ==
    /\ q.fn = "idBrowserFastAndDirty"
    /\ q.browser = "Unknows"
C12_UnknownPairReached ==
    /\ q.fn = "idBrowserAnalytic"
    /\ q.browser = "Unknown"
    /\ q.platform = "Unknown"

TierAttributes ==
    {"m_cacheRows", "m_cachePrecompiled", "m_rePrecompiled", "m_cachePrecompiledHeavy"}

\* C13: on a constructed instance every attribute is there, so that no
\* query builds a tier, and no step changes the dataset or a tier.
C13_QueriesChangeNoTier ==
    [][pc = "done"
          => /\ TierAttributes \subseteq self_dict
             /\ UNCHANGED <<m_cacheRows, m_cachePrecompiled, m_rePrecompiled,
                            m_cachePrecompiledHeavy, self_dict>>]_vars

\* C13 witness: Medium returned a row of a dataset of two, and the tiers
\* are the ones __init__ built
C13_Witness ==
    /\ pc = "done"
    /\ q.fn = "idBrowserMedium"
    /\ q.row = 2
    /\ m_cachePrecompiled = initCacheMedium(m_cacheRows)
    /\ m_cachePrecompiledHeavy = initCacheHeavy(m_cacheRows)
    /\ m_rePrecompiled = initCacheFast

\* The curated browsers and the width of the version window, as claimed
CuratedBrowsers == {"Chrome", "Safari", "IE", "Opera", "Firefox"}
MajorVerOf(i) == m_cacheRows[i]["majorver"].n
BrowserOf(i)  == m_cacheRows[i]["browser"]

\* max(b) for the browser of row i
MaxMajorVer(i) ==
    SetMax({ MajorVerOf(j) : j \in { j \in AllRows : BrowserOf(j) = BrowserOf(i) } })

\* The rows the claim puts in the Medium tier
InMediumFilter(i) ==
    /\ BrowserOf(i).t = "str"
    /\ BrowserOf(i).s \in CuratedBrowsers
    /\ MaxMajorVer(i) - MajorVerOf(i) < 6

\* C24: the Medium tier holds exactly the rows of the dataset whose browser
\* is Chrome, Safari, IE, Opera or Firefox and whose majorver is less than
\* 6 below the largest majorver of the rows of that browser, each once and
\* in the order of the dataset: a row 6 below the largest is left out, a
\* row 5 below is in.
C24_MediumTierIsTheRecentCuratedRows ==
    "m_cachePrecompiled" \in self_dict
        => /\ \A a, b \in 1..Len(m_cachePrecompiled) :
                  a < b => m_cachePrecompiled[a].row < m_cachePrecompiled[b].row
           /\ { m_cachePrecompiled[a].row : a \in 1..Len(m_cachePrecompiled) }
                = { i \in AllRows : InMediumFilter(i) }
           /\ \A i \in AllRows :
                  /\ (BrowserOf(i).s \in CuratedBrowsers
                        /\ MaxMajorVer(i) - MajorVerOf(i) = 6)
                       => \A a \in 1..Len(m_cachePrecompiled) :
                              m_cachePrecompiled[a].row # i
                  /\ (BrowserOf(i).s \in CuratedBrowsers
                        /\ MaxMajorVer(i) - MajorVerOf(i) = 5)
                       => \E a \in 1..Len(m_cachePrecompiled) :
                              m_cachePrecompiled[a].row = i

\* C24 witness: a row exactly 6 versions below the largest of its browser
\* was left out of the tier
C24_Witness ==
    /\ "m_cachePrecompiled" \in self_dict
    /\ Len(m_cacheRows) = 2
    /\ BrowserOf(1) = BrowserOf(2)
    /\ MajorVerOf(2) - MajorVerOf(1) = 6
    /\ TierRows(m_cachePrecompiled) = <<2>>

\* C24, the other cases are reached too: a row 5 versions below is in the
\* tier; a row of another browser is not
C24_FiveBelowReached ==
    /\ "m_cachePrecompiled" \in self_dict
    /\ Len(m_cacheRows) = 2
    /\ BrowserOf(1) = BrowserOf(2)
    /\ MajorVerOf(2) - MajorVerOf(1) = 5
    /\ TierRows(m_cachePrecompiled) = <<1, 2>>
C24_OtherBrowserReached ==
    /\ "m_cachePrecompiled" \in self_dict
    /\ Len(m_cacheRows) = 2
    /\ BrowserOf(1) = PyStr("Lynx")
    /\ TierRows(m_cachePrecompiled) = <<2>>

\* What idBrowserHeavy returns for the user agent of the last call
HeavyOfCall == idBrowserHeavy(m_cachePrecompiledHeavy, q.ua)

\* C26: when idBrowserMedium returns a row, idBrowserHeavy returns a row
\* for the same user agent, at the same place of the dataset or before it;
\* and when it is another row, that row matches the user agent, comes
\* before the one Medium returned, and is not in the Medium filter.
C26_HeavyMatchesAtOrBeforeMedium ==
    (pc = "done" /\ q.fn = "idBrowserMedium" /\ q.row # ReturnsNone)
        => /\ HeavyOfCall # ReturnsNone
           /\ HeavyOfCall <= q.row
           /\ HeavyOfCall # q.row
                 => /\ RowMatches(HeavyOfCall, q.ua)
                    /\ ~InMediumFilter(HeavyOfCall)
                    /\ \A a \in 1..Len(m_cachePrecompiled) :
                           m_cachePrecompiled[a].row # HeavyOfCall

\* C26 witness: Medium returned the second row, Heavy returns the first,
\* a matching row of a browser that is not curated
C26_Witness ==
    /\ pc = "done"
    /\ q.fn = "idBrowserMedium"
    /\ q.row = 2
    /\ HeavyOfCall = 1
    /\ BrowserOf(1) = PyStr("Lynx")
    /\ RowMatches(1, q.ua)

\* C26, the results are the same row when both rows are in the tier
C26_SameRowReached ==
    /\ pc = "done"
    /\ q.fn = "idBrowserMedium"
    /\ q.row = 2
    /\ HeavyOfCall = 2
    /\ Len(m_cachePrecompiled) = 2

---------------------------------------------------------------------------
(***************************************************************************)
(* Properties of the version negotiation (under SpecInit).                 *)
(***************************************************************************)
Loading == pc \in {"load", "initCacheMedium", "initCacheFast", "initCacheHeavy", "done"}

\* The local file existed when __init__ was entered, with an integer marker
HadReadableLocalVersion ==
    startFile.exists /\ startFile.version \in DOMAIN IntLiterals

\* C4: with a local file and a readable marker, no download is made when
\* the remote version equals the local one, and exactly one otherwise; by
\* the time the rows are loaded that one download has replaced the whole
\* local file by what was downloaded.
C4_DownloadExactlyOnMismatch ==
    (HadReadableLocalVersion /\ remoteVersion \in DOMAIN IntLiterals)
        => LET same == IntLiterals[remoteVersion] = IntLiterals[startFile.version]
           IN  /\ same => downloads = 0 /\ localFile = startFile
               /\ ~same => downloads <= 1
               /\ (Loading /\ ~same) => downloads = 1 /\ localFile = l_contents_file

\* C4 witness: versions differed, one download replaced the file, and the
\* rows are about to be read
C4_Witness ==
    /\ HadReadableLocalVersion
    /\ pc = "load"
    /\ l_reader = 0
    /\ downloads = 1
    /\ localFile # startFile
    /\ IntLiterals[startFile.version] > l_latestVersion

---------------------------------------------------------------------------
(***************************************************************************)
(* Properties of a rebuild concurrent with a query (under SpecConc).       *)
(***************************************************************************)
\* C7: a query that runs while the tier is rebuilt scans the complete old
\* or the complete new tier and never an empty or partly filled list, so it
\* returns what a scan of the complete tier returns (old and new tier hold
\* the same rows).
C7_QuerySeesCompleteTier ==
    t_pc = "returned"
        => t_result = idBrowserHeavy(initCacheHeavy(m_cacheRows), t_ua)

\* The local file was there when __init__ was entered, but its version could
\* not be read: unreadable file, or a marker that is missing or no integer
HadUnreadableLocalVersion ==
    /\ startFile.exists
    /\ ~startFile.readable \/ startFile.version \notin DOMAIN IntLiterals

AfterStep1 == pc \notin {"isfile", "localVersion"}

\* C14: with a local file whose version cannot be read, step 1 does not
\* raise and leaves the local version 0; once the remote version is known
\* the dataset is downloaded exactly when that version is not 0, and the
\* constructor has only failed where the remote version, the download or
\* the load of an undownloaded unreadable file fails.
C14_UnreadableLocalVersionIsZero ==
    HadUnreadableLocalVersion
        => /\ AfterStep1 => l_localVersion = 0
           /\ (pc = "raised" /\ downloads = 0)
                 => \/ remoteVersion \notin DOMAIN IntLiterals
                    \/ IntLiterals[remoteVersion] = 0 /\ ~startFile.readable
           /\ (remoteVersion \in DOMAIN IntLiterals /\ Loading)
                 => IF IntLiterals[remoteVersion] # 0
                    THEN downloads = 1 /\ localFile = l_contents_file
                    ELSE downloads = 0 /\ localFile = startFile
           /\ (remoteVersion \in DOMAIN IntLiterals /\ IntLiterals[remoteVersion] = 0)
                 => downloads = 0

\* C14 witness: the local file had a marker that is no integer, the remote
\* version is not 0, and the downloaded file is about to be loaded
C14_Witness ==
    /\ startFile.exists
    /\ startFile.version = "x"
    /\ l_localVersion = 0
    /\ l_latestVersion # 0
    /\ pc = "load"
    /\ downloads = 1

\* C14, the other cases are reached too: an unreadable file replaced, and a
\* file without marker kept because the remote version is 0
C14_UnreadableReplaced ==
    /\ startFile = UnreadableFile
    /\ pc = "done"
    /\ downloads = 1
C14_RemoteZeroKeepsFile ==
    /\ HadUnreadableLocalVersion
    /\ remoteVersion = "0"
    /\ pc = "done"
    /\ localFile = startFile

\* C15: when the remote version cannot be fetched or is no integer,
\* __init__ ends in getLatestVersion's exception: it never compares
\* versions, loads a row, or builds a tier, and a local file that was there
\* is neither downloaded again nor changed.
C15_VersionFetchFailureAborts ==
    remoteVersion \notin DOMAIN IntLiterals
        => /\ pc \in {"isfile", "localVersion", "latestVersion", "raised"}
           /\ l_reader = 0
           /\ self_dict = {}
           /\ m_cacheRows = << >>
           /\ startFile.exists => downloads = 0 /\ localFile = startFile

\* C15 witness: a valid local file with rows and a readable version was
\* there, the fetch failed, and __init__ has raised
C15_Witness ==
    /\ startFile.exists
    /\ startFile.version = "1"
    /\ Len(startFile.rows) = 2
    /\ remoteVersion = "URLError"
    /\ l_localVersion = 1
    /\ pc = "raised"

\* C16: without a local file, the first thing __init__ does is the download:
\* the local version is read, and the remote version fetched, only after
\* one download has written the file, whatever the versions are.
C16_MissingFileIsDownloadedFirst ==
    ~startFile.exists
        => /\ pc # "isfile" => downloads >= 1
           /\ pc = "localVersion"
                 => /\ downloads = 1
                    /\ localFile.exists
                    /\ localFile = l_contents_file
           /\ pc \in {"latestVersion", "compare"} => localFile.exists

\* C16 witness: there was no file, the download has written one whose
\* version equals the remote one, and the local version is about to be read
C16_Witness ==
    /\ ~startFile.exists
    /\ pc = "localVersion"
    /\ downloads = 1
    /\ localFile.exists
    /\ localFile.version = remoteVersion

---------------------------------------------------------------------------
(***************************************************************************)
(* Properties of idBrowserAnalytic (under SpecUa).  The tests are stated   *)
(* on the parts of the user agent as plain text: words contained, words    *)
(* separated by one whitespace character, a word followed by another.      *)
(***************************************************************************)
AnalyticCalled == l_found.browser # NotCalled

\* The parts of p_ua, lower-cased where the tests ignore case
Parts ==
    Bind(l_match(p_ua), LAMBDA m :
        [found |-> m.found, head |-> lower(m.head),
         body  |-> lower(m.body), tail |-> lower(m.tail)])

Has(s, w) == Contains(s, Chars(w))

Whitespace == {" ", "\t", "\n", "\r", "\f"}

\* s contains the words ws in a row, one whitespace character between them
RECURSIVE PhraseAt(_, _, _)
PhraseAt(s, ws, i) ==
    \E w \in { Chars(ws[1]) } :
        /\ OccursAt(s, w, i)
        /\ Len(ws) > 1 =>
              /\ i + Len(w) <= Len(s)
              /\ s[i + Len(w)] \in Whitespace
              /\ PhraseAt(s, Tail(ws), i + Len(w) + 1)
HasPhrase(s, ws) ==
    \E str \in {s} : \E i \in 1..Len(str) : PhraseAt(str, ws, i)

\* The browser tests in the order of the claim: <<satisfied, label>>
BrowserTests(P) ==
    << <<Has(P.tail, "opera") \/ Has(P.tail, "opr") \/ Has(P.head, "opera"), "Opera">>,
       <<Has(P.tail, "edge"), "Edge">>,
       <<Has(P.tail, "fxios"), "Firefox">>,
       <<Has(P.tail, "ucbrowser"), "UC Browser">>,
       <<Has(P.body, "msie"), "IE">>,
       <<Has(P.tail, "chromium"), "Chromium">>,
       <<Has(P.tail, "chrome") \/ Has(P.tail, "crios") \/ Has(P.tail, "crmo"), "Chrome">>,
       <<Has(P.tail, "safari"), "Safari">>,
       <<FollowedBy(P.body, "windows", "trident"), "IE">>,
       <<Has(P.tail, "firefox"), "Firefox">>,
       <<Has(P.tail, "gecko"), "Firefox">> >>

\* The platform tests in the order of the claim
PlatformTests(P) ==
    << <<Has(P.body, "android"), "Android">>,
       <<HasPhrase(P.body, <<"iphone", "os">>) \/ Has(P.body, "ipad"), "iOS">>,
       <<Has(P.body, "cros"), "ChromeOS">>,
       <<HasPhrase(P.body, <<"windows", "nt", "5">>), "WinXP">>,
       <<HasPhrase(P.body, <<"windows", "nt", "6.0">>), "WinVista">>,
       <<HasPhrase(P.body, <<"windows", "nt", "6.1">>), "Win7">>,
       <<HasPhrase(P.body, <<"windows", "nt", "6.2">>), "Win8">>,
       <<HasPhrase(P.body, <<"windows", "nt", "6.3">>), "Win8.1">>,
       <<HasPhrase(P.body, <<"windows", "nt", "10">>), "Win10">>,
       <<Has(P.body, "windows"), "Windows">>,
       <<HasPhrase(P.body, <<"mac", "os", "x">>), "MacOSX">>,
       <<Has(P.body, "ubuntu"), "Ubuntu">>,
       <<Has(P.body, "linux"), "Linux">> >>

\* The label of the first satisfied test, "Unknown" when there is none
FirstSatisfied(tests) ==
    Bind(tests, LAMBDA ts :
        IF \E i \in DOMAIN ts : ts[i][1]
        THEN ts[SetMin({ i \in DOMAIN ts : ts[i][1] })][2]
        ELSE "Unknown")

\* What the ordered tests say about p_ua
Reference ==
    Bind(Parts, LAMBDA P :
        [found    |-> P.found,
         body     |-> P.body,
         tail     |-> P.tail,
         browser  |-> FirstSatisfied(BrowserTests(P)),
         platform |-> FirstSatisfied(PlatformTests(P))])

\* The example user agents of the specification
ChromeOnWin7 ==
    Chars("Mozilla/5.0 ") \o <<"(">> \o Chars("Windows NT 6.1") \o <<")">>
        \o Chars(" AppleWebKit/537.36 (KHTML, like Gecko) Chrome/50.0.2661.102 Safari/537.36")
FirefoxOnMac ==
    Chars("Mozilla/5.0 ") \o <<"(">> \o Chars("Macintosh; Intel Mac OS X 10.8; rv:48.0")
        \o <<")">> \o Chars(" Gecko/20100101 Firefox/48.0")

\* C17: for a user agent with the head/(body)/tail structure and without
\* post-processing override, the browser idBrowserAnalytic returns is the
\* label of the first satisfied browser test, in the order Opera, Edge,
\* fxios, UC Browser, msie, Chromium, Chrome, Safari, windows...trident,
\* firefox, gecko ("Unknown" when none is); only a Safari pick on an android
\* body is then turned into Android by the platform step.  The Chrome
\* example on Windows NT 6.1 gives ("Chrome", "Win7").
C17_BrowserIsFirstSatisfiedTest ==
    AnalyticCalled => \E R \in {Reference} :
        /\ (AnalyticCalled /\ R.found /\ ~OverrideApplies(p_ua))
             => l_found.browser =
                   IF Has(R.body, "android") /\ R.browser = "Safari"
                   THEN "Android"
                   ELSE R.browser
        /\ (AnalyticCalled /\ p_ua = ChromeOnWin7)
             => l_found.browser = "Chrome" /\ l_found.platform = "Win7"

\* C17 witness: the example whose tail holds both Chrome and Safari
C17_Witness ==
    AnalyticCalled /\ \E R \in {Reference} :
        /\ p_ua = ChromeOnWin7
        /\ R.found
        /\ ~OverrideApplies(p_ua)
        /\ Has(R.tail, "chrome") /\ Has(R.tail, "safari")
        /\ l_found.browser = "Chrome"
        /\ l_found.platform = "Win7"

\* C17, a later test decides when the earlier ones fail: windows...trident
C17_TridentReached ==
    AnalyticCalled /\ \E R \in {Reference} :
        /\ AnalyticCalled /\ R.found /\ ~OverrideApplies(p_ua)
        /\ ~Has(R.body, "msie")
        /\ FollowedBy(R.body, "windows", "trident")
        /\ Has(R.tail, "gecko")
        /\ l_found.browser = "IE"

\* C18: for a structured user agent without post-processing override, the
\* platform returned is the label of the first satisfied platform test on
\* the body, in the order android, iphone os / ipad, cros, windows nt 5,
\* 6.0, 6.1, 6.2, 6.3, 10, windows, mac os x, ubuntu, linux ("Unknown" when
\* none is); and on a body with android a browser classified Safari is
\* returned as Android.  The Firefox example gives ("Firefox", "MacOSX").
C18_PlatformIsFirstSatisfiedTest ==
    AnalyticCalled => \E R \in {Reference} :
        /\ (AnalyticCalled /\ R.found /\ ~OverrideApplies(p_ua))
             => /\ l_found.platform = R.platform
                /\ Has(R.body, "android")
                     => /\ l_found.browser # "Safari"
                        /\ R.browser = "Safari"
                              => l_found.browser = "Android"
        /\ (AnalyticCalled /\ p_ua = FirefoxOnMac)
             => l_found.browser = "Firefox" /\ l_found.platform = "MacOSX"

\* C18 witness: an android body (which also holds linux) with a Safari tail
C18_Witness ==
    AnalyticCalled /\ \E R \in {Reference} :
        /\ R.found
        /\ ~OverrideApplies(p_ua)
        /\ Has(R.body, "android") /\ Has(R.body, "linux")
        /\ R.browser = "Safari"
        /\ l_found.browser = "Android"
        /\ l_found.platform = "Android"

\* C18, the example and the test for windows nt 6.3 are reached too
C18_ExampleReached ==
    /\ p_ua = FirefoxOnMac
    /\ l_found.browser = "Firefox"
    /\ l_found.platform = "MacOSX"
C18_Win81Reached ==
    AnalyticCalled /\ \E R \in {Reference} :
        /\ R.found /\ ~OverrideApplies(p_ua)
        /\ l_found.platform = "Win8.1"

NoSocialOrBotToken(ua) ==
    /\ ~ContainsAny(ua, SocialTokens)
    /\ ~ContainsAny(lower(ua), BotTokens)

\* C19 as stated: a user agent that contains safari and darwin, in either
\* order, and no social-app or bot token gives ("Safari", "iOS").
C19_SafariAndDarwinInEitherOrder ==
    (AnalyticCalled
        /\ Has(lower(p_ua), "safari") /\ Has(lower(p_ua), "darwin")
        /\ NoSocialOrBotToken(p_ua))
      => l_found.browser = "Safari" /\ l_found.platform = "iOS"

\* C19: a user agent in which safari is followed, later on the same line,
\* by darwin (case ignored), and which holds no social-app or bot token,
\* gives ("Safari", "iOS") whatever the structural classification was.
C19_SafariFollowedByDarwin ==
    (AnalyticCalled
        /\ FollowedBy(lower(p_ua), "safari", "darwin")
        /\ NoSocialOrBotToken(p_ua))
      => l_found.browser = "Safari" /\ l_found.platform = "iOS"

\* C19 witness: the structure says another platform, the result is iOS
C19_Witness ==
    AnalyticCalled /\ \E R \in {Reference} :
        /\ R.found
        /\ FollowedBy(lower(p_ua), "safari", "darwin")
        /\ NoSocialOrBotToken(p_ua)
        /\ R.platform = "Win7"
        /\ R.browser = "Opera"
        /\ l_found.browser = "Safari"
        /\ l_found.platform = "iOS"

\* C20: a user agent that holds one of bot, spider, crawl, curl, wget,
\* python, phantomjs (case ignored) gives ("Bot", ""), whatever the
\* structure, the safari/darwin test and the social-app test say.
C20_BotOverrideWins ==
    (AnalyticCalled /\ ContainsAny(lower(p_ua), BotTokens))
      => l_found.browser = "Bot" /\ l_found.platform = ""

\* C20 witness: a structured user agent to which all three overrides apply
C20_Witness ==
    AnalyticCalled /\ \E R \in {Reference} :
        /\ R.found
        /\ R.platform = "Win10"
        /\ FollowedBy(lower(p_ua), "safari", "darwin")
        /\ ContainsAny(p_ua, SocialTokens)
        /\ Has(lower(p_ua), "bot")
        /\ l_found.browser = "Bot"
        /\ l_found.platform = ""

\* C20, a token in capitals on a user agent without structure
C20_PythonReached ==
    AnalyticCalled /\ \E R \in {Reference} :
        /\ ~R.found
        /\ p_ua = Chars("Python-urllib/3.5")
        /\ l_found.browser = "Bot"
        /\ l_found.platform = ""

---------------------------------------------------------------------------
(***************************************************************************)
(* Properties of idBrowserFastAndDirty (under SpecUa).                     *)
(***************************************************************************)
FastCalled == l_found.fast # NotCalled

\* The labels of the rules in their fixed order
RuleLabels ==
    <<"Chrome", "UC Browser", "Opera", "IE", "Safari", "Safari", "Firefox">>

\* The rules whose regex matches p_ua
MatchingRules == { i \in DOMAIN l_reList : re_search_src(l_reList[i], p_ua) }

\* C21: idBrowserFastAndDirty returns the label of the first rule whose
\* regex matches the user agent, the rules taken in the order Chrome,
\* UC Browser, Opera, IE, Safari, Safari, Firefox, and its sentinel when no
\* rule matches; the result is a label, and it is the same whatever rows
\* the dataset holds.
C21_FastReturnsFirstMatchingRule ==
    /\ "m_rePrecompiled" \in self_dict
         => [i \in DOMAIN m_rePrecompiled |-> m_rePrecompiled[i].browser] = RuleLabels
    /\ FastCalled
         => \E hits \in {MatchingRules} :
               l_found.fast = IF hits = {} THEN "Unknows"
                              ELSE RuleLabels[SetMin(hits)]

\* C21 witness: on a dataset with rows, a user agent that the rules for
\* Chrome, Safari and Firefox all match gets the label of the first
C21_Witness ==
    /\ FastCalled
    /\ Len(m_cacheRows) >= 1
    /\ {1, 5, 7} \subseteq MatchingRules
    /\ l_found.fast = "Chrome"

\* C21, the sentinel is reached, with and without rows in the dataset
C21_SentinelWithRowsReached ==
    /\ FastCalled
    /\ Len(m_cacheRows) >= 1
    /\ l_found.fast = "Unknows"
C21_SentinelWithoutRowsReached ==
    /\ FastCalled
    /\ m_cacheRows = << >>
    /\ l_found.fast = "Unknows"

---------------------------------------------------------------------------
(***************************************************************************)
(* Properties of downloadCSVFile (under SpecInit).                         *)
(***************************************************************************)
\* A step that is a call of downloadCSVFile
DownloadStep == downloads' = downloads + 1

\* The call raised while opening or reading the url: no body was read
UrlFailed == DownloadStep /\ ~l_contents_file'.exists

\* C27: a call of downloadCSVFile that fails while opening or reading the
\* url raises and leaves the local file as it was, absent or with its
\* content; and the local file only changes in a call that has read the
\* whole body.
C27_UrlFailureLeavesFileUntouched ==
    [][ /\ UrlFailed => pc' = "raised" /\ localFile' = localFile
        /\ localFile' # localFile => DownloadStep /\ l_contents_file'.exists
      ]_vars

\* C27 witness: a local file with rows and version 1 was there, the remote
\* version is 2, the download failed at the url and the file is as it was
C27_Witness ==
    /\ pc = "raised"
    /\ downloads = 1
    /\ ~l_contents_file.exists
    /\ startFile.exists
    /\ Len(startFile.rows) = 2
    /\ l_localVersion = 1
    /\ l_latestVersion = 2
    /\ localFile = startFile

\* C27, the other cases are reached too: the file was absent and still is;
\* the body was read and saving it failed
C27_AbsentFileReached ==
    /\ pc = "raised"
    /\ downloads = 1
    /\ ~l_contents_file.exists
    /\ ~startFile.exists
    /\ ~localFile.exists
C27_SaveFailureReached ==
    /\ pc = "raised"
    /\ downloads = 1
    /\ l_contents_file.exists
    /\ startFile.readable
    /\ localFile = UnreadableFile

=============================================================================
